---------------------------- MODULE Spec2Model ----------------------------
(***************************************************************************)
(* The ledger state engine of rippled (src/ripple/app/ledger/Ledger.cpp):  *)
(* ledger objects over two SHAMaps, the header hash, snapshots and         *)
(* successors, the historical-hash skiplists and the pending-save path.    *)
(*                                                                         *)
(* A uint256 is a natural number; 0 is the zero hash.  sha512Half is an    *)
(* ideal (collision free) hash: the variable digests lists every byte      *)
(* string hashed so far and the hash of a string is its position there.    *)
(* A byte string is a sequence of naturals, one per serialized field.      *)
(***************************************************************************)
EXTENDS Integers, Sequences, FiniteSets, Bags, TLC

VARIABLES
    digests,        \* preimages of every sha512Half computed so far
    maps,           \* the SHAMap objects, by address
    ledgers,        \* the Ledger objects, by address
    origin,         \* history: how each ledger was built and from which one
    chain,          \* history: the hash each chain ledger had when succeeded
    hashRouter,     \* HashRouter: the hashes that carry SF_SAVED
    sPendingSaves,  \* Ledger::sPendingSaves
    jobQueue,       \* JobQueue: pending saveValidatedLedgerAsync jobs
    threads,        \* the callers of pendSaveValidated, by position
    saves,          \* history: saveValidatedLedger executions started
    sleCache,       \* the SLE cache: immutable entries by leaf hash
    held,           \* the entry a caller holds from its last accessor call
    book,           \* the last quality index computed, and from what
    calc,           \* the last key or close time computed, and from what
    owned,          \* history: the offers of each account, oldest first
    walk,           \* the last walk since the directories changed: calls, result
    db,             \* the rows of the ledger and of the transaction database
    resolver,       \* the ResolverAsioImpl object, its strand and its callers
    fees            \* the callers of the fee accessors, the lock, the assignments

vars == <<digests, maps, ledgers, origin, chain,
          hashRouter, sPendingSaves, jobQueue, threads, saves,
          sleCache, held, book, calc, owned, walk, db, resolver,
          fees>>

-----------------------------------------------------------------------------
(* Bounds of the model *)

MaxLedgers == 2
MaxDigests == 5
MaxSeq == 6
MaxChainLen == 259
NumThreads == 2
DirNodeMax == 2
MaxPage == 2
MaxOffers == 3
MaxCached == 1
MaxResolves == 2
NumCallers == 2
MaxFeeCalls == 3

(* Program constants *)

SkipListSize == 256
LEDGER_TIME_ACCURACY == 30
sLCF_NoConsensusTime == 1

lepNONE == 0
lepCREATE == 1
lepOKAY == 2
lepMISSING == 4
lepWRONGTYPE == 8
lepCREATED == 16
lepERROR == 32

(* Wire constants of the protocol headers *)
HashPrefix_ledgerMaster == 1280791040      \* 'L','W','R',0
HashPrefix_txNode == 1397638144            \* 'S','N','D',0
HashPrefix_leafNode == 1296846336          \* 'M','L','N',0
spaceAccount == 97                         \* 'a'
spaceSkipList == 115                       \* 's'
spaceRipple == 114                         \* 'r'
spaceOwnerDir == 79                        \* 'O'
spaceDirNode == 100                        \* 'd'
spaceOffer == 111                          \* 'o'
ltACCOUNT_ROOT == 97                       \* 'a'
ltLEDGER_HASHES == 104                     \* 'h'
ltDIR_NODE == 100                          \* 'd'
ltOFFER == 111                             \* 'o'
spaceFee == 101                            \* 'e'
ltFEE_SETTINGS == 115                      \* 's'

-----------------------------------------------------------------------------
(* Serializer::getSHA512Half over the table of preimages *)

Known(tab, x) == \E i \in 1..Len(tab) : tab[i] = x

Digest(tab, x) ==
    IF Known(tab, x) THEN CHOOSE i \in 1..Len(tab) : tab[i] = x
                     ELSE Len(tab) + 1

Learn(tab, x) == IF Known(tab, x) THEN tab ELSE Append(tab, x)


-----------------------------------------------------------------------------
(* Ledger entries (SLE) and their serialized form *)

AccountRootSLE(index, balance, sequence) ==
    [type |-> ltACCOUNT_ROOT, index |-> index,
     Balance |-> balance, Sequence |-> sequence]

LedgerHashesSLE(index, hashes, last) ==
    [type |-> ltLEDGER_HASHES, index |-> index,
     Hashes |-> hashes, LastLedgerSequence |-> last]

\* a page of a directory: the indexes of its entries and the numbers of the
\* next and of the previous page
DirectoryNodeSLE(index, indexes, next, previous) ==
    [type |-> ltDIR_NODE, index |-> index,
     Indexes |-> indexes, IndexNext |-> next, IndexPrevious |-> previous]

\* an offer, and the page of its owner's directory that lists it
OfferSLE(index, sequence, ownerNode) ==
    [type |-> ltOFFER, index |-> index,
     Sequence |-> sequence, OwnerNode |-> ownerNode]

\* the fee settings: present has bit 2^(k-1) set when the k-th of the fields
\* BaseFee, ReferenceFeeUnits, ReserveBase, ReserveIncrement is in the entry
FeeSettingsSLE(index, present, fields) ==
    [type |-> ltFEE_SETTINGS, index |-> index, present |-> present,
     BaseFee |-> fields[1], ReferenceFeeUnits |-> fields[2],
     ReserveBase |-> fields[3], ReserveIncrement |-> fields[4]]

\* a null SLE::pointer
NullSLE == [type |-> 0, index |-> 0]

\* SLE::add: the entry as bytes, type first
SLE_add(sle) ==
    IF sle.type = ltACCOUNT_ROOT
    THEN <<ltACCOUNT_ROOT, sle.Balance, sle.Sequence>>
    ELSE IF sle.type = ltDIR_NODE
    THEN <<ltDIR_NODE, sle.IndexNext, sle.IndexPrevious>> \o sle.Indexes
    ELSE IF sle.type = ltOFFER
    THEN <<ltOFFER, sle.Sequence, sle.OwnerNode>>
    ELSE IF sle.type = ltFEE_SETTINGS
    THEN <<ltFEE_SETTINGS, sle.present, sle.BaseFee, sle.ReferenceFeeUnits,
           sle.ReserveBase, sle.ReserveIncrement>>
    ELSE <<ltLEDGER_HASHES, sle.LastLedgerSequence>> \o sle.Hashes

\* SLE (Serializer, index): the entry read back from its bytes
SLE_parse(data, index) ==
    IF data[1] = ltACCOUNT_ROOT
    THEN AccountRootSLE(index, data[2], data[3])
    ELSE IF data[1] = ltDIR_NODE
    THEN DirectoryNodeSLE(index, SubSeq(data, 4, Len(data)), data[2], data[3])
    ELSE IF data[1] = ltOFFER
    THEN OfferSLE(index, data[2], data[3])
    ELSE IF data[1] = ltFEE_SETTINGS
    THEN FeeSettingsSLE(index, data[2], SubSeq(data, 3, 6))
    ELSE LedgerHashesSLE(index, SubSeq(data, 3, Len(data)), data[2])

-----------------------------------------------------------------------------
(* SHAMap: a keyed set of items with a root hash over its contents *)

smtTRANSACTION == 1
smtSTATE == 2

NoItems == <<>>

MinOf(S) == CHOOSE x \in S : \A y \in S : x <= y

RECURSIVE ItemsBytes(_, _)
ItemsBytes(items, keys) ==
    IF keys = {} THEN <<>>
    ELSE LET k == MinOf(keys)
         IN  <<k, Len(items[k])>> \o items[k] \o ItemsBytes(items, keys \ {k})

\* the canonical encoding the root hash is taken over; the kind enters it
SHAMap_bytes(m) ==
    <<IF m.type = smtSTATE THEN HashPrefix_leafNode ELSE HashPrefix_txNode>>
        \o ItemsBytes(m.items, DOMAIN m.items)

SHAMap_new(w, type) ==
    [w EXCEPT !.maps = Append(@, [type |-> type, items |-> NoItems,
                                  mState |-> "Modifying"])]

SHAMap_hasItem(w, m, k) == k \in DOMAIN w.maps[m].items

SHAMap_peekItem(w, m, k) == w.maps[m].items[k]

\* a key as the number its 256 bits are: the order of the keys in a map
KeyValue(k) == IF k < 0 THEN 0 - k ELSE k

\* the item of the least key above id, of the greatest key below id; the
\* key 0 stands for a null item pointer
SHAMap_peekNextItem(w, m, id) ==
    LET above == {k \in DOMAIN w.maps[m].items : KeyValue(k) > KeyValue(id)}
    IN  IF above = {} THEN 0
        ELSE CHOOSE k \in above : \A j \in above : KeyValue(k) <= KeyValue(j)

SHAMap_peekPrevItem(w, m, id) ==
    LET below == {k \in DOMAIN w.maps[m].items : KeyValue(k) < KeyValue(id)}
    IN  IF below = {} THEN 0
        ELSE CHOOSE k \in below : \A j \in below : KeyValue(k) >= KeyValue(j)

\* the zero hash for an empty map, else the hash of the contents
SHAMap_getHash(w, m) ==
    IF DOMAIN w.maps[m].items = {}
    THEN [w |-> w, ret |-> 0]
    ELSE [w   |-> [w EXCEPT !.digests = Learn(@, SHAMap_bytes(w.maps[m]))],
          ret |-> Digest(w.digests, SHAMap_bytes(w.maps[m]))]

PutItem(items, k, data) ==
    [x \in DOMAIN items \cup {k} |-> IF x = k THEN data ELSE items[x]]

\* fails when the map is immutable or the tag is present
SHAMap_addGiveItem(w, m, k, data) ==
    IF w.maps[m].mState = "Immutable" \/ SHAMap_hasItem(w, m, k)
    THEN [w |-> w, ret |-> FALSE]
    ELSE [w |-> [w EXCEPT !.maps[m].items = PutItem(@, k, data)], ret |-> TRUE]

\* fails when the map is immutable or the tag is absent
SHAMap_updateGiveItem(w, m, k, data) ==
    IF w.maps[m].mState = "Immutable" \/ ~SHAMap_hasItem(w, m, k)
    THEN [w |-> w, ret |-> FALSE]
    ELSE [w |-> [w EXCEPT !.maps[m].items = PutItem(@, k, data)], ret |-> TRUE]

\* fails when the map is immutable or the tag is absent
SHAMap_delItem(w, m, k) ==
    IF w.maps[m].mState = "Immutable" \/ ~SHAMap_hasItem(w, m, k)
    THEN [w |-> w, ret |-> FALSE]
    ELSE [w   |-> [w EXCEPT !.maps[m].items =
                       [x \in DOMAIN @ \ {k} |-> @[x]]],
          ret |-> TRUE]

\* a new map object with the same contents
SHAMap_snapShot(w, m, isMutable) ==
    [w EXCEPT !.maps = Append(@, [w.maps[m] EXCEPT !.mState =
                         IF isMutable THEN "Modifying" ELSE "Immutable"])]

SHAMap_setImmutable(w, m) == [w EXCEPT !.maps[m].mState = "Immutable"]

-----------------------------------------------------------------------------
(* Key derivation *)

\* sha512Half of a space tag and at most one short field: the hash being
\* ideal, an injective code of the preimage, negative to keep it apart from
\* the digests of the table
IndexHash(x) ==
    IF Len(x) = 1 THEN 0 - (x[1] * 65536)
    ELSE 0 - (x[1] * 65536 + 1 + x[2])

getAccountRootIndex(account) == IndexHash(<<spaceAccount, account>>)

getLedgerHashIndex == IndexHash(<<spaceSkipList>>)

\* desiredLedgerIndex >> 16
getLedgerHashIndexFor(desiredLedgerIndex) ==
    IndexHash(<<spaceSkipList, desiredLedgerIndex \div 65536>>)

getLedgerFeeIndex == IndexHash(<<spaceFee>>)

getOwnerDirIndex(account) == IndexHash(<<spaceOwnerDir, account>>)

\* the account and the sequence make one field of the preimage
getOfferIndex(account, uSequence) ==
    IndexHash(<<spaceOffer, account * 256 + uSequence>>)

\* the root itself for page 0; else the root, which enters by its low 16
\* bits, and the page number, below 16, make one field of the preimage
getDirNodeIndex(uDirRoot, uNodeIndex) ==
    IF uNodeIndex # 0
    THEN IndexHash(<<spaceDirNode,
                     ((0 - uDirRoot) % 65536) * 16 + uNodeIndex>>)
    ELSE uDirRoot

\* a < b for two base_uint of one width, as bytes: the first byte that
\* differs decides
RECURSIVE KeyLess(_, _)
KeyLess(a, b) ==
    IF a = <<>> THEN FALSE
    ELSE IF Head(a) # Head(b) THEN Head(a) < Head(b)
    ELSE KeyLess(Tail(a), Tail(b))

\* Serializer::add16: two bytes, the high byte first
add16(v) == <<v \div 256, v % 256>>

\* sha512Half of a byte string longer than that of IndexHash: the hash being
\* ideal, two hashes are equal exactly if their preimages are
SHA512Half(bytes) == [sha512Half |-> bytes]

\* getRippleStateIndex that hashes the accounts in argument order
getRippleStateIndex_Unsorted(a, b, currency) ==
    SHA512Half(add16(spaceRipple) \o a \o b \o currency)

\* a, b and currency are 160 bits wide, 20 bytes each
getRippleStateIndex(a, b, currency) ==
    SHA512Half(add16(spaceRipple)
               \o (IF KeyLess(a, b) THEN a \o b ELSE b \o a)
               \o currency)

-----------------------------------------------------------------------------
(* Ledger: header, hash and lifecycle *)

World == [digests |-> digests, maps |-> maps, ledgers |-> ledgers]

\* the values addRaw adds, in order; add8 keeps the low byte
addRaw(L) ==
    <<L.mLedgerSeq, L.mTotCoins, L.mParentHash, L.mTransHash, L.mAccountHash,
      L.mParentCloseTime, L.mCloseTime,
      L.mCloseResolution % 256, L.mCloseFlags % 256>>

\* the widths in bytes of those adds: add32, add64, add256 (3), add32 (2),
\* add8 (2)
HeaderLayout == <<4, 8, 32, 32, 32, 4, 4, 1, 1>>

\* Serializer::add32 and the like: v in n bytes, most significant first
RECURSIVE BigEndian(_, _)
BigEndian(v, n) ==
    IF n = 0 THEN <<>> ELSE Append(BigEndian(v \div 256, n - 1), v % 256)

\* SerializerIterator::get32 and the like: the value of a run of bytes
RECURSIVE FromBigEndian(_)
FromBigEndian(b) ==
    IF b = <<>> THEN 0
    ELSE FromBigEndian(SubSeq(b, 1, Len(b) - 1)) * 256 + b[Len(b)]

\* the bytes a Serializer holds after the given adds
RECURSIVE Serializer_add(_, _)
Serializer_add(values, widths) ==
    IF values = <<>> THEN <<>>
    ELSE BigEndian(Head(values), Head(widths))
            \o Serializer_add(Tail(values), Tail(widths))

\* the bytes addRaw appends to an empty Serializer
getRaw(L) == Serializer_add(addRaw(L), HeaderLayout)

\* SerializerIterator: n bytes read at offset pos
Sit_get(s, pos, n) == FromBigEndian(SubSeq(s, pos + 1, pos + n))

-----------------------------------------------------------------------------
(* Quality indexes.  Here a uint256 is its 32 bytes, first byte most
   significant, as base_uint stores it; a uint64 is its 8 base-256 digits,
   most significant first; host is the byte order of the machine *)

Hosts == {"little", "big"}

RECURSIVE Reverse(_)
Reverse(s) == IF s = <<>> THEN <<>> ELSE Append(Reverse(Tail(s)), Head(s))

\* htobe64 and be64toh: the bytes swapped on a little-endian host
htobe64(x, host) == IF host = "little" THEN Reverse(x) ELSE x

be64toh(x, host) == IF host = "little" THEN Reverse(x) ELSE x

\* a uint64 written through a std::uint64_t*, as bytes in address order
Store64(x, host) == IF host = "little" THEN Reverse(x) ELSE x

\* the uint64 a std::uint64_t* reads from 8 bytes
Load64(bytes, host) == IF host = "little" THEN Reverse(bytes) ELSE bytes

\* getQualityIndex that stores uNodeDir as the host holds it
getQualityIndex_NoSwap(uBase, uNodeDir, host) ==
    SubSeq(uBase, 1, 24) \o Store64(uNodeDir, host)

\* Ledger::getQualityIndex: uNodeDir in the 8 right most bytes of uBase
getQualityIndex(uBase, uNodeDir, host) ==
    SubSeq(uBase, 1, 24) \o Store64(htobe64(uNodeDir, host), host)

\* Ledger::getQuality: the last 64 bits
getQuality(uBase, host) == be64toh(Load64(SubSeq(uBase, 25, 32), host), host)

\* base_uint plus one, modulo 256 ^ Len
RECURSIVE Increment(_)
Increment(b) ==
    IF b = <<>> THEN <<>>
    ELSE IF b[Len(b)] = 255
         THEN Append(Increment(SubSeq(b, 1, Len(b) - 1)), 0)
         ELSE Append(SubSeq(b, 1, Len(b) - 1), b[Len(b)] + 1)

\* getQualityNext that steps to the next key
getQualityNext_PlusOne(uBase) == Increment(uBase)

\* Ledger::getQualityNext: uBase + 0x10000000000000000
getQualityNext(uBase) == Increment(SubSeq(uBase, 1, 24)) \o SubSeq(uBase, 25, 32)

\* sha512Half of a serialized book: an ideal hash, a table of outputs that
\* differ from book to book
BookHashes ==
    << <<210, 220, 68, 229, 220, 24, 147, 24, 219, 54, 239, 135, 210, 16, 76,
         223, 10, 15, 227, 164, 182, 152, 190, 238, 85, 3, 141, 126, 164, 198,
         128, 0>>,
       [j \in 1..32 |-> IF j = 1 THEN 1 ELSE 255],
       [j \in 1..32 |-> j],
       [j \in 1..32 |-> 0] >>

Books == 1..Len(BookHashes)

\* Ledger::getBookBase: the hash of the book with quality 0
getBookBase(bk, host) ==
    getQualityIndex(BookHashes[bk], BigEndian(0, 8), host)

-----------------------------------------------------------------------------
(* Ledger: close time, hash, lifecycle and typed accessors *)

\* A std::uint32_t is kept at its width as two 16-bit halves, the high half
\* first; n is a natural below 2^31
U32(n) == <<n \div 65536, n % 65536>>

U32_value(x) == x[1] * 65536 + x[2]

\* x + n modulo 2^32, for n below 2^16
U32_add(x, n) ==
    <<(x[1] + (x[2] + n) \div 65536) % 65536, (x[2] + n) % 65536>>

\* x % r, for 0 < r < 2^15
U32_mod(x, r) == ((x[1] % r) * (65536 % r) + (x[2] % r)) % r

\* x - n modulo 2^32, for n below 2^16
U32_sub(x, n) ==
    IF x[2] >= n THEN <<x[1], x[2] - n>>
    ELSE <<(x[1] + 65535) % 65536, x[2] + 65536 - n>>

roundCloseTime(closeTime, closeResolution) ==
    IF closeTime = U32(0) THEN U32(0)
    ELSE LET ct == U32_add(closeTime, closeResolution \div 2)
         IN  U32_sub(ct, U32_mod(ct, closeResolution))

\* roundCloseTime on a close time held as a natural
Rounded(closeTime, closeResolution) ==
    U32_value(roundCloseTime(U32(closeTime), closeResolution))

initializeFees(L) ==
    [L EXCEPT !.mBaseFee = 0, !.mReferenceFeeUnits = 0,
              !.mReserveBase = 0, !.mReserveIncrement = 0]

\* a Ledger object before its constructor ran: hashes are zero
RawLedger ==
    [mHash |-> 0, mParentHash |-> 0, mTransHash |-> 0, mAccountHash |-> 0,
     mTotCoins |-> 0, mLedgerSeq |-> 0, mCloseTime |-> 0,
     mParentCloseTime |-> 0, mCloseResolution |-> 0, mCloseFlags |-> 0,
     mClosed |-> FALSE, mValidated |-> FALSE, mValidHash |-> FALSE,
     mAccepted |-> FALSE, mImmutable |-> FALSE,
     mBaseFee |-> 0, mReferenceFeeUnits |-> 0,
     mReserveBase |-> 0, mReserveIncrement |-> 0,
     mTransactionMap |-> 0, mAccountStateMap |-> 0]

updateHash(w, i) ==
    LET L  == w.ledgers[i]
        th == SHAMap_getHash(w, L.mTransactionMap)
        ah == SHAMap_getHash(th.w, L.mAccountStateMap)
        w1 == IF L.mImmutable THEN w ELSE ah.w
        L1 == IF L.mImmutable THEN L
              ELSE [L EXCEPT !.mTransHash = th.ret, !.mAccountHash = ah.ret]
        s  == <<HashPrefix_ledgerMaster>> \o addRaw(L1)
    IN  [w1 EXCEPT !.digests = Learn(@, s),
                   !.ledgers[i] = [L1 EXCEPT !.mHash = Digest(w1.digests, s),
                                             !.mValidHash = TRUE]]

getHash(w, i) ==
    LET w1 == IF w.ledgers[i].mValidHash THEN w ELSE updateHash(w, i)
    IN  [w |-> w1, ret |-> w1.ledgers[i].mHash]

setImmutable(w, i) ==
    LET w1 == updateHash(w, i)
        w2 == [w1 EXCEPT !.ledgers[i].mImmutable = TRUE]
        w3 == SHAMap_setImmutable(w2, w2.ledgers[i].mTransactionMap)
    IN  SHAMap_setImmutable(w3, w3.ledgers[i].mAccountStateMap)

\* SHAMap (type, hash): a map known by its root hash, its tree not loaded
SHAMap_fromHash(w, type, hash) ==
    [w EXCEPT !.maps = Append(@, [type |-> type, items |-> NoItems,
                                  mState |-> "Synching", hash |-> hash])]

\* setRaw reading the close time before the parent close time
setRaw_TimesSwapped(w, i, s, hasPrefix) ==
    LET o  == IF hasPrefix THEN 4 ELSE 0
        L1 == [w.ledgers[i] EXCEPT
                  !.mLedgerSeq       = Sit_get(s, o, 4),
                  !.mTotCoins        = Sit_get(s, o + 4, 8),
                  !.mParentHash      = Sit_get(s, o + 12, 32),
                  !.mTransHash       = Sit_get(s, o + 44, 32),
                  !.mAccountHash     = Sit_get(s, o + 76, 32),
                  !.mCloseTime       = Sit_get(s, o + 108, 4),
                  !.mParentCloseTime = Sit_get(s, o + 112, 4),
                  !.mCloseResolution = Sit_get(s, o + 116, 1),
                  !.mCloseFlags      = Sit_get(s, o + 117, 1)]
        w1 == updateHash([w EXCEPT !.ledgers[i] = L1], i)
        w2 == SHAMap_fromHash(w1, smtTRANSACTION, L1.mTransHash)
        w3 == SHAMap_fromHash(w2, smtSTATE, L1.mAccountHash)
    IN  [w3 EXCEPT !.ledgers[i].mTransactionMap = Len(w2.maps),
                   !.ledgers[i].mAccountStateMap = Len(w3.maps)]

\* Ledger::setRaw (s, hasPrefix) on ledger i: the header read from the
\* bytes s, the hash updated, the maps made from the two roots
setRaw(w, i, s, hasPrefix) ==
    LET o  == IF hasPrefix THEN 4 ELSE 0
        L1 == [w.ledgers[i] EXCEPT
                  !.mLedgerSeq       = Sit_get(s, o, 4),
                  !.mTotCoins        = Sit_get(s, o + 4, 8),
                  !.mParentHash      = Sit_get(s, o + 12, 32),
                  !.mTransHash       = Sit_get(s, o + 44, 32),
                  !.mAccountHash     = Sit_get(s, o + 76, 32),
                  !.mParentCloseTime = Sit_get(s, o + 108, 4),
                  !.mCloseTime       = Sit_get(s, o + 112, 4),
                  !.mCloseResolution = Sit_get(s, o + 116, 1),
                  !.mCloseFlags      = Sit_get(s, o + 117, 1)]
        w1 == updateHash([w EXCEPT !.ledgers[i] = L1], i)
        w2 == IF w1.ledgers[i].mValidHash
              THEN SHAMap_fromHash(w1, smtTRANSACTION, L1.mTransHash) ELSE w1
        w3 == IF w1.ledgers[i].mValidHash
              THEN SHAMap_fromHash(w2, smtSTATE, L1.mAccountHash) ELSE w1
    IN  IF w1.ledgers[i].mValidHash
        THEN [w3 EXCEPT !.ledgers[i].mTransactionMap = Len(w2.maps),
                        !.ledgers[i].mAccountStateMap = Len(w3.maps)]
        ELSE w1

setAcceptedAt(w, i, closeTime, closeResolution, correctCloseTime) ==
    setImmutable(
        [w EXCEPT !.ledgers[i] =
            [@ EXCEPT !.mCloseTime = IF correctCloseTime
                                     THEN Rounded(closeTime, closeResolution)
                                     ELSE closeTime,
                      !.mCloseResolution = closeResolution,
                      !.mCloseFlags = IF correctCloseTime THEN 0
                                      ELSE sLCF_NoConsensusTime,
                      !.mAccepted = TRUE]], i)

setAccepted(w, i) ==
    setImmutable(
        [w EXCEPT !.ledgers[i] =
            [@ EXCEPT !.mCloseTime =
                          IF (w.ledgers[i].mCloseFlags % 2) = 0
                          THEN Rounded(w.ledgers[i].mCloseTime,
                                       w.ledgers[i].mCloseResolution)
                          ELSE w.ledgers[i].mCloseTime,
                      !.mAccepted = TRUE]], i)

\* writeBack that inserts an absent entry whether or not lepCREATE is set
writeBack_AlwaysCreate(w, i, parms, entry) ==
    LET m      == w.ledgers[i].mAccountStateMap
        create == ~SHAMap_hasItem(w, m, entry.index)
        added  == SHAMap_addGiveItem(w, m, entry.index, SLE_add(entry))
        upd    == SHAMap_updateGiveItem(w, m, entry.index, SLE_add(entry))
    IN  IF create
        THEN IF added.ret THEN [w |-> added.w, ret |-> lepCREATED]
                          ELSE [w |-> w, ret |-> lepERROR]
        ELSE IF upd.ret THEN [w |-> upd.w, ret |-> lepOKAY]
                        ELSE [w |-> w, ret |-> lepERROR]

writeBack(w, i, parms, entry) ==
    LET m      == w.ledgers[i].mAccountStateMap
        create == ~SHAMap_hasItem(w, m, entry.index)
        added  == SHAMap_addGiveItem(w, m, entry.index, SLE_add(entry))
        upd    == SHAMap_updateGiveItem(w, m, entry.index, SLE_add(entry))
    IN  IF create /\ (parms % 2) = 0 THEN [w |-> w, ret |-> lepMISSING]
        ELSE IF create
             THEN IF added.ret THEN [w |-> added.w, ret |-> lepCREATED]
                               ELSE [w |-> w, ret |-> lepERROR]
             ELSE IF upd.ret THEN [w |-> upd.w, ret |-> lepOKAY]
                             ELSE [w |-> w, ret |-> lepERROR]

addSLE(w, i, sle) ==
    SHAMap_addGiveItem(w, w.ledgers[i].mAccountStateMap, sle.index, SLE_add(sle))

addTransaction(w, i, txID, txn) ==
    LET r == SHAMap_addGiveItem(w, w.ledgers[i].mTransactionMap, txID, txn)
    IN  IF ~r.ret THEN [w |-> w, ret |-> FALSE]
        ELSE [w |-> [r.w EXCEPT !.ledgers[i].mValidHash = FALSE], ret |-> TRUE]

getSLE(w, i, uHash) ==
    SLE_parse(SHAMap_peekItem(w, w.ledgers[i].mAccountStateMap, uHash), uHash)

\* Ledger::getPrevLedgerIndex (uHash): node ? node->getTag () : uint256 ()
getPrevLedgerIndex(w, i, uHash) ==
    SHAMap_peekPrevItem(w, w.ledgers[i].mAccountStateMap, uHash)

\* getPrevLedgerIndex that takes the previous item
getPrevLedgerIndex_begin_Prev(w, i, uHash, uBegin) ==
    LET node == SHAMap_peekPrevItem(w, w.ledgers[i].mAccountStateMap, uHash)
    IN  IF node = 0 \/ KeyValue(node) < KeyValue(uBegin) THEN 0 ELSE node

\* Ledger::getPrevLedgerIndex (uHash, uBegin)
getPrevLedgerIndex_begin(w, i, uHash, uBegin) ==
    LET node == SHAMap_peekNextItem(w, w.ledgers[i].mAccountStateMap, uHash)
    IN  IF node = 0 \/ KeyValue(node) < KeyValue(uBegin) THEN 0 ELSE node

hasSLE(w, i, uHash) == SHAMap_hasItem(w, w.ledgers[i].mAccountStateMap, uHash)

\* a | b on LedgerStateParms
HasFlag(p, f) == (p \div f) % 2 = 1

BitOr(a, b) ==
    LET on(f) == IF HasFlag(a, f) \/ HasFlag(b, f) THEN f ELSE 0
    IN  on(1) + on(2) + on(4) + on(8) + on(16) + on(32)

\* SLE (type, index): a fresh entry of that type, its fields at their defaults
SLE_new(let, index) ==
    IF let = ltACCOUNT_ROOT THEN AccountRootSLE(index, 0, 0)
                            ELSE LedgerHashesSLE(index, <<>>, 0)

\* getASNode that returns whatever entry is stored, of any type
getASNode_AnyType(w, i, parms, nodeID, let) ==
    IF ~SHAMap_hasItem(w, w.ledgers[i].mAccountStateMap, nodeID)
    THEN IF ~HasFlag(parms, lepCREATE)
         THEN [sle |-> NullSLE, parms |-> lepMISSING]
         ELSE [sle |-> SLE_new(let, nodeID),
               parms |-> BitOr(BitOr(parms, lepCREATED), lepOKAY)]
    ELSE [sle |-> getSLE(w, i, nodeID), parms |-> BitOr(parms, lepOKAY)]

\* Ledger::getASNode (parms, nodeID, let): the entry, or NullSLE, and parms
\* as the call leaves it
getASNode(w, i, parms, nodeID, let) ==
    LET m   == w.ledgers[i].mAccountStateMap
        sle == SLE_parse(SHAMap_peekItem(w, m, nodeID), nodeID)
    IN  IF ~SHAMap_hasItem(w, m, nodeID)
        THEN IF ~HasFlag(parms, lepCREATE)
             THEN [sle |-> NullSLE, parms |-> lepMISSING]
             ELSE [sle |-> SLE_new(let, nodeID),
                   parms |-> BitOr(BitOr(parms, lepCREATED), lepOKAY)]
        ELSE IF sle.type # let
             THEN [sle |-> NullSLE, parms |-> BitOr(parms, lepWRONGTYPE)]
             ELSE [sle |-> sle, parms |-> BitOr(parms, lepOKAY)]

\* the hash of a state leaf, which peekItem (id, hash) reports: the hash
\* being ideal, the leaf's preimage stands for it
LeafHash(data, tag) == <<HashPrefix_leafNode>> \o data \o <<tag>>

\* getSLEi that answers from the cache by key alone
getSLEi_KeyedByIndex(w, cache, i, uId) ==
    LET m    == w.ledgers[i].mAccountStateMap
        data == SHAMap_peekItem(w, m, uId)
        hash == <<uId>>
    IN  IF ~SHAMap_hasItem(w, m, uId) THEN [sle |-> NullSLE, cache |-> cache]
        ELSE IF hash \in DOMAIN cache
             THEN [sle |-> cache[hash], cache |-> cache]
             ELSE [sle |-> SLE_parse(data, uId),
                   cache |-> PutItem(cache, hash, SLE_parse(data, uId))]

\* Ledger::getSLEi (uId): the immutable entry, from the SLE cache when the
\* leaf's hash is there, else parsed and put into the cache
getSLEi(w, cache, i, uId) ==
    LET m    == w.ledgers[i].mAccountStateMap
        data == SHAMap_peekItem(w, m, uId)
        hash == LeafHash(data, uId)
    IN  IF ~SHAMap_hasItem(w, m, uId) THEN [sle |-> NullSLE, cache |-> cache]
        ELSE IF hash \in DOMAIN cache
             THEN [sle |-> cache[hash], cache |-> cache]
             ELSE [sle |-> SLE_parse(data, uId),
                   cache |-> PutItem(cache, hash, SLE_parse(data, uId))]

-----------------------------------------------------------------------------
(* Fees: updateFees and the accessors that call it *)

\* getConfig (): the configured defaults
Config == [FEE_DEFAULT |-> 10, TRANSACTION_FEE_BASE |-> 10,
           FEE_ACCOUNT_RESERVE |-> 200, FEE_OWNER_RESERVE |-> 50]

\* sle->getFieldIndex (field) != -1, for the k-th fee field
isFieldPresent(sle, k) == HasFlag(sle.present, 2 ^ (k - 1))

\* updateFees: the four locals, from the defaults and from the fee settings
\* of the ledger as they are now
updateFees_locals(w, i) ==
    LET sle == getASNode(w, i, lepNONE, getLedgerFeeIndex, ltFEE_SETTINGS).sle
        has(k) == sle # NullSLE /\ isFieldPresent(sle, k)
    IN  [baseFee           |-> IF has(1) THEN sle.BaseFee
                                         ELSE Config.FEE_DEFAULT,
         referenceFeeUnits |-> IF has(2) THEN sle.ReferenceFeeUnits
                                         ELSE Config.TRANSACTION_FEE_BASE,
         reserveBase       |-> IF has(3) THEN sle.ReserveBase
                                         ELSE Config.FEE_ACCOUNT_RESERVE,
         reserveIncrement  |-> IF has(4) THEN sle.ReserveIncrement
                                         ELSE Config.FEE_OWNER_RESERVE,
         sle               |-> sle]

\* the k-th assignment of updateFees under the lock
updateFees_assign(L, locals, k) ==
    IF k = 1 THEN [L EXCEPT !.mBaseFee = locals.baseFee]
    ELSE IF k = 2 THEN [L EXCEPT !.mReferenceFeeUnits = locals.referenceFeeUnits]
    ELSE IF k = 3 THEN [L EXCEPT !.mReserveBase = locals.reserveBase]
    ELSE [L EXCEPT !.mReserveIncrement = locals.reserveIncrement]

\* what an accessor reads and returns once updateFees has returned; for
\* scaleFeeBase and scaleFeeLoad, what it passes on to the fee track
Accessors == {"getReferenceFeeUnits", "getBaseFee", "getReserve",
              "getReserveInc", "scaleFeeBase", "scaleFeeLoad"}

accessorValue(L, accessor, arg) ==
    IF accessor = "getReferenceFeeUnits" THEN L.mReferenceFeeUnits
    ELSE IF accessor = "getBaseFee" THEN L.mBaseFee
    ELSE IF accessor = "getReserve"
    THEN arg * L.mReserveIncrement + L.mReserveBase
    ELSE IF accessor = "getReserveInc" THEN L.mReserveIncrement
    ELSE IF accessor = "scaleFeeBase"
    THEN <<arg, L.mBaseFee, L.mReferenceFeeUnits>>
    ELSE <<arg, L.mBaseFee, L.mReferenceFeeUnits, FALSE>>

-----------------------------------------------------------------------------
(* Directories: dirAdd and dirDelete of the transaction layer, and the walk *)
(* over an owner directory                                                  *)

\* entryCreate or entryModify of the transaction layer, applied to the state
\* map
PutSLE(w, i, sle) ==
    LET m == w.ledgers[i].mAccountStateMap
    IN  IF SHAMap_hasItem(w, m, sle.index)
        THEN SHAMap_updateGiveItem(w, m, sle.index, SLE_add(sle)).w
        ELSE SHAMap_addGiveItem(w, m, sle.index, SLE_add(sle)).w

\* entryDelete of the transaction layer, applied to the state map
DelSLE(w, i, k) == SHAMap_delItem(w, w.ledgers[i].mAccountStateMap, k).w

Range(seq) == {seq[j] : j \in 1..Len(seq)}

Without(seq, x) == LET keep(y) == y # x IN SelectSeq(seq, keep)

\* dirAdd: the entry goes to the end of the last page, which the root's
\* IndexPrevious names; a full last page gets a successor, linked both ways
dirAdd(w, i, uRootIndex, uLedgerIndex) ==
    IF ~hasSLE(w, i, uRootIndex)
    THEN [w   |-> PutSLE(w, i, DirectoryNodeSLE(uRootIndex,
                                                <<uLedgerIndex>>, 0, 0)),
          ret |-> 0]
    ELSE LET uNodeDir == getSLE(w, i, uRootIndex).IndexPrevious
             sleNode  == getSLE(w, i, getDirNodeIndex(uRootIndex, uNodeDir))
         IN  IF Len(sleNode.Indexes) < DirNodeMax
             THEN [w   |-> PutSLE(w, i, [sleNode EXCEPT !.Indexes =
                                            Append(@, uLedgerIndex)]),
                   ret |-> uNodeDir]
             ELSE LET n  == uNodeDir + 1
                      w1 == PutSLE(w, i, [sleNode EXCEPT !.IndexNext = n])
                      w2 == PutSLE(w1, i, [getSLE(w1, i, uRootIndex)
                                             EXCEPT !.IndexPrevious = n])
                      w3 == PutSLE(w2, i,
                                DirectoryNodeSLE(
                                    getDirNodeIndex(uRootIndex, n),
                                    <<uLedgerIndex>>, 0, uNodeDir))
                  IN  [w |-> w3, ret |-> n]

\* dirDelete: the entry leaves page uNodeDir, the others keep their order;
\* a page other than the root that loses its last entry is unlinked from
\* its neighbours and deleted
dirDelete(w, i, uNodeDir, uRootIndex, uLedgerIndex) ==
    LET k == getDirNodeIndex(uRootIndex, uNodeDir)
    IN  IF ~hasSLE(w, i, k) THEN [w |-> w, ret |-> FALSE]
        ELSE
        LET sleNode == getSLE(w, i, k)
            rest    == Without(sleNode.Indexes, uLedgerIndex)
            prev    == sleNode.IndexPrevious
            next    == sleNode.IndexNext
            w1 == PutSLE(w, i,
                         [getSLE(w, i, getDirNodeIndex(uRootIndex, prev))
                             EXCEPT !.IndexNext = next])
            w2 == IF next # 0
                  THEN PutSLE(w1, i,
                         [getSLE(w1, i, getDirNodeIndex(uRootIndex, next))
                             EXCEPT !.IndexPrevious = prev])
                  ELSE PutSLE(w1, i, [getSLE(w1, i, uRootIndex)
                                         EXCEPT !.IndexPrevious = prev])
        IN  IF uLedgerIndex \notin Range(sleNode.Indexes)
            THEN [w |-> w, ret |-> FALSE]
            ELSE IF rest # <<>> \/ uNodeDir = 0
            THEN [w   |-> PutSLE(w, i, [sleNode EXCEPT !.Indexes = rest]),
                  ret |-> TRUE]
            ELSE [w |-> DelSLE(w2, i, k), ret |-> TRUE]

\* the callbacks given to the walk with a cursor, and what they return
Funcs == {"all", "none", "odd"}

Func(fn, sle) ==
    CASE fn = "all"  -> TRUE
      [] fn = "none" -> FALSE
      [] fn = "odd"  -> sle # NullSLE /\ sle.Sequence % 2 = 1

\* for (node : sfIndexes) func (getSLEi (node))
RECURSIVE VisitNodes(_, _, _, _)
VisitNodes(w, cache, i, nodes) ==
    IF nodes = <<>> THEN [calls |-> <<>>, cache |-> cache]
    ELSE LET r == getSLEi(w, cache, i, Head(nodes))
             t == VisitNodes(w, r.cache, i, Tail(nodes))
         IN  [calls |-> <<r.sle>> \o t.calls, cache |-> t.cache]

\* while (1): one round per page.  A round left undone after fuel rounds,
\* fuel being more than the entries of the map, is a walk that never ends
RECURSIVE VisitPages(_, _, _, _, _, _)
VisitPages(w, cache, i, rootIndex, currentIndex, fuel) ==
    IF fuel = 0 THEN [calls |-> <<>>, cache |-> cache, done |-> FALSE]
    ELSE
    LET r        == getSLEi(w, cache, i, currentIndex)
        ownerDir == r.sle
        v        == VisitNodes(w, r.cache, i, ownerDir.Indexes)
        t        == VisitPages(w, v.cache, i, rootIndex,
                               getDirNodeIndex(rootIndex, ownerDir.IndexNext),
                               fuel - 1)
    IN  IF ownerDir = NullSLE \/ ownerDir.type # ltDIR_NODE
        THEN [calls |-> <<>>, cache |-> r.cache, done |-> TRUE]
        ELSE IF ownerDir.IndexNext = 0
        THEN [calls |-> v.calls, cache |-> v.cache, done |-> TRUE]
        ELSE [calls |-> v.calls \o t.calls, cache |-> t.cache,
              done |-> t.done]

Fuel(w, i) == Cardinality(DOMAIN w.maps[w.ledgers[i].mAccountStateMap].items) + 1

\* visitAccountItems that starts at the page after the root
visitAccountItems_SkipRoot(w, cache, i, accountID) ==
    VisitPages(w, cache, i, getOwnerDirIndex(accountID),
               getDirNodeIndex(getOwnerDirIndex(accountID), 1), Fuel(w, i))

\* visitAccountItems (accountID, func)
visitAccountItems(w, cache, i, accountID) ==
    VisitPages(w, cache, i, getOwnerDirIndex(accountID),
               getOwnerDirIndex(accountID), Fuel(w, i))

\* the loop over the entries of one page in the overload with a cursor.
\* st: found, limit, the calls of func so far, the cache, and whether the
\* function returned inside the loop.  limit-- wraps at 0, but the function
\* returns there
RECURSIVE ScanNodes(_, _, _, _, _, _)
ScanNodes(w, i, nodes, startAfter, fn, st) ==
    IF nodes = <<>> \/ st.returned THEN st
    ELSE IF ~st.found
    THEN ScanNodes(w, i, Tail(nodes), startAfter, fn,
                   [st EXCEPT !.found = (Head(nodes) = startAfter)])
    ELSE LET r   == getSLEi(w, st.cache, i, Head(nodes))
             st1 == [st EXCEPT !.calls = Append(@, r.sle),
                               !.cache = r.cache]
         IN  IF Func(fn, r.sle)
             THEN IF st.limit <= 1
                  THEN [st1 EXCEPT !.returned = TRUE]
                  ELSE ScanNodes(w, i, Tail(nodes), startAfter, fn,
                                 [st1 EXCEPT !.limit = @ - 1])
             ELSE ScanNodes(w, i, Tail(nodes), startAfter, fn, st1)

\* for (;;): one round per page
RECURSIVE ScanPages(_, _, _, _, _, _, _, _)
ScanPages(w, i, rootIndex, currentIndex, startAfter, fn, st, fuel) ==
    IF fuel = 0 THEN [st EXCEPT !.done = FALSE]
    ELSE
    LET r        == getSLEi(w, st.cache, i, currentIndex)
        ownerDir == r.sle
        st1      == ScanNodes(w, i, ownerDir.Indexes, startAfter, fn,
                              [st EXCEPT !.cache = r.cache])
    IN  IF ownerDir = NullSLE \/ ownerDir.type # ltDIR_NODE
        THEN [st EXCEPT !.cache = r.cache]
        ELSE IF st1.returned \/ ownerDir.IndexNext = 0
        THEN st1
        ELSE ScanPages(w, i, rootIndex,
                       getDirNodeIndex(rootIndex, ownerDir.IndexNext),
                       startAfter, fn, st1, fuel - 1)

\* visitAccountItems (accountID, startAfter, hint, limit, func): with a
\* cursor, the walk starts at the hinted page if the cursor is there, else
\* at the root, and returns found; without one it starts at the root with
\* nothing to skip and returns true
visitAccountItems_startAfter(w, cache, i, accountID, startAfter, hint, limit, fn) ==
    LET rootIndex == getOwnerDirIndex(accountID)
        hintIndex == getDirNodeIndex(rootIndex, hint)
        hr        == getSLEi(w, cache, i, hintIndex)
        hintDir   == hr.sle
        currentIndex ==
            IF hintDir # NullSLE /\ startAfter \in Range(hintDir.Indexes)
            THEN hintIndex ELSE rootIndex
        st == IF startAfter # 0
              THEN ScanPages(w, i, rootIndex, currentIndex, startAfter, fn,
                             [found |-> FALSE, limit |-> limit,
                              calls |-> <<>>, cache |-> hr.cache,
                              returned |-> FALSE, done |-> TRUE],
                             Fuel(w, i))
              ELSE ScanPages(w, i, rootIndex, rootIndex, startAfter, fn,
                             [found |-> TRUE, limit |-> limit,
                              calls |-> <<>>, cache |-> cache,
                              returned |-> FALSE, done |-> TRUE],
                             Fuel(w, i))
    IN  [calls |-> st.calls, cache |-> st.cache, done |-> st.done,
         ret |-> IF startAfter # 0 THEN st.found ELSE TRUE]

-----------------------------------------------------------------------------
(* The skip lists *)

\* updateSkipList that records every 256th hash but keeps the sliding list
\* growing
updateSkipList_NoEvict(w, i) ==
    LET L         == w.ledgers[i]
        prevIndex == L.mLedgerSeq - 1
        k1   == getLedgerHashIndexFor(prevIndex)
        old1 == IF hasSLE(w, i, k1) THEN getSLE(w, i, k1).Hashes ELSE <<>>
        wb1  == writeBack(w, i, lepCREATE,
                    LedgerHashesSLE(k1, Append(old1, L.mParentHash), prevIndex))
        paged == prevIndex % 256 = 0
        wA   == IF paged THEN wb1.w ELSE w
        k2   == getLedgerHashIndex
        old2 == IF hasSLE(wA, i, k2) THEN getSLE(wA, i, k2).Hashes ELSE <<>>
        wb2  == writeBack(wA, i, lepCREATE,
                    LedgerHashesSLE(k2, Append(old2, L.mParentHash), prevIndex))
    IN  IF L.mLedgerSeq = 0 THEN [w |-> w, asserted |-> FALSE]
        ELSE [w |-> wb2.w,
              asserted |-> \/ paged /\ (Len(old1) > 256 \/ wb1.ret = lepERROR)
                           \/ Len(old2) > 256
                           \/ wb2.ret = lepERROR]

\* updateSkipList that records the ledger's own hash in the paged list
updateSkipList_PageOwnHash(w, i) ==
    LET L         == w.ledgers[i]
        prevIndex == L.mLedgerSeq - 1
        k1   == getLedgerHashIndexFor(prevIndex)
        old1 == IF hasSLE(w, i, k1) THEN getSLE(w, i, k1).Hashes ELSE <<>>
        wb1  == writeBack(w, i, lepCREATE,
                    LedgerHashesSLE(k1, Append(old1, L.mHash), prevIndex))
        paged == prevIndex % 256 = 0
        wA   == IF paged THEN wb1.w ELSE w
        k2   == getLedgerHashIndex
        old2 == IF hasSLE(wA, i, k2) THEN getSLE(wA, i, k2).Hashes ELSE <<>>
        kept == IF Len(old2) = SkipListSize THEN Tail(old2) ELSE old2
        wb2  == writeBack(wA, i, lepCREATE,
                    LedgerHashesSLE(k2, Append(kept, L.mParentHash), prevIndex))
    IN  [w |-> wb2.w, asserted |-> FALSE]

\* Ledger::updateSkipList on ledger i; asserted: one of its assertions failed
updateSkipList(w, i) ==
    LET L         == w.ledgers[i]
        prevIndex == L.mLedgerSeq - 1
        \* update record of every 256th ledger
        k1   == getLedgerHashIndexFor(prevIndex)
        old1 == IF hasSLE(w, i, k1) THEN getSLE(w, i, k1).Hashes ELSE <<>>
        wb1  == writeBack(w, i, lepCREATE,
                    LedgerHashesSLE(k1, Append(old1, L.mParentHash), prevIndex))
        paged == prevIndex % 256 = 0
        wA   == IF paged THEN wb1.w ELSE w
        \* update record of past 256 ledger
        k2   == getLedgerHashIndex
        old2 == IF hasSLE(wA, i, k2) THEN getSLE(wA, i, k2).Hashes ELSE <<>>
        kept == IF Len(old2) = SkipListSize THEN Tail(old2) ELSE old2
        wb2  == writeBack(wA, i, lepCREATE,
                    LedgerHashesSLE(k2, Append(kept, L.mParentHash), prevIndex))
    IN  IF L.mLedgerSeq = 0 THEN [w |-> w, asserted |-> FALSE]
        ELSE [w |-> wb2.w,
              asserted |-> \/ paged /\ (Len(old1) > 256 \/ wb1.ret = lepERROR)
                           \/ Len(old2) > 256
                           \/ wb2.ret = lepERROR]

\* getLedgerHash reading the sliding list from its front
getLedgerHash_FromFront(w, i, ledgerIndex) ==
    LET L    == w.ledgers[i]
        diff == L.mLedgerSeq - ledgerIndex
        k    == getLedgerHashIndex
        vec  == getSLE(w, i, k).Hashes
    IN  IF ledgerIndex > L.mLedgerSeq
        THEN [w |-> w, ret |-> 0, asserted |-> FALSE]
        ELSE IF ledgerIndex = L.mLedgerSeq
        THEN [w |-> getHash(w, i).w, ret |-> getHash(w, i).ret, asserted |-> FALSE]
        ELSE IF ledgerIndex = L.mLedgerSeq - 1
        THEN [w |-> w, ret |-> L.mParentHash, asserted |-> FALSE]
        ELSE IF diff <= 256 /\ hasSLE(w, i, k) /\ Len(vec) >= diff
        THEN [w |-> w, ret |-> vec[diff], asserted |-> FALSE]
        ELSE [w |-> w, ret |-> 0, asserted |-> FALSE]

\* getLedgerHash that looks any old sequence up in the paged list
getLedgerHash_PagedAny(w, i, ledgerIndex) ==
    LET L    == w.ledgers[i]
        diff == L.mLedgerSeq - ledgerIndex
        k     == getLedgerHashIndex
        has   == diff <= 256 /\ hasSLE(w, i, k)
        vec   == getSLE(w, i, k).Hashes
        k2    == getLedgerHashIndexFor(ledgerIndex)
        has2  == hasSLE(w, i, k2)
        sle2  == getSLE(w, i, k2)
        sDiff == (sle2.LastLedgerSequence - ledgerIndex) \div 256
        vec2  == sle2.Hashes
    IN  IF ledgerIndex > L.mLedgerSeq
        THEN [w |-> w, ret |-> 0, asserted |-> FALSE]
        ELSE IF ledgerIndex = L.mLedgerSeq
        THEN [w |-> getHash(w, i).w, ret |-> getHash(w, i).ret, asserted |-> FALSE]
        ELSE IF ledgerIndex = L.mLedgerSeq - 1
        THEN [w |-> w, ret |-> L.mParentHash, asserted |-> FALSE]
        ELSE IF has /\ Len(vec) >= diff
        THEN [w |-> w, ret |-> vec[Len(vec) - diff + 1], asserted |-> FALSE]
        ELSE IF has2 /\ Len(vec2) > sDiff /\ sDiff >= 0
        THEN [w |-> w, ret |-> vec2[Len(vec2) - sDiff], asserted |-> FALSE]
        ELSE [w |-> w, ret |-> 0, asserted |-> FALSE]

\* Ledger::getLedgerHash (ledgerIndex) on ledger i: the hash of the ledger
\* of that sequence, 0 if not available
getLedgerHash(w, i, ledgerIndex) ==
    LET L    == w.ledgers[i]
        diff == L.mLedgerSeq - ledgerIndex
        \* within 256
        k     == getLedgerHashIndex
        has   == diff <= 256 /\ hasSLE(w, i, k)
        sle   == getSLE(w, i, k)
        vec   == sle.Hashes
        bad1  == has /\ sle.LastLedgerSequence # L.mLedgerSeq - 1
        \* in skiplist
        k2    == getLedgerHashIndexFor(ledgerIndex)
        has2  == hasSLE(w, i, k2)
        sle2  == getSLE(w, i, k2)
        lastSeq == sle2.LastLedgerSequence
        sDiff == (lastSeq - ledgerIndex) \div 256
        vec2  == sle2.Hashes
        bad2  == has2 /\ (lastSeq < ledgerIndex \/ lastSeq % 256 # 0)
    IN  IF ledgerIndex > L.mLedgerSeq
        THEN [w |-> w, ret |-> 0, asserted |-> FALSE]
        ELSE IF ledgerIndex = L.mLedgerSeq
        THEN [w |-> getHash(w, i).w, ret |-> getHash(w, i).ret, asserted |-> FALSE]
        ELSE IF ledgerIndex = L.mLedgerSeq - 1
        THEN [w |-> w, ret |-> L.mParentHash, asserted |-> FALSE]
        ELSE IF has /\ Len(vec) >= diff
        THEN [w |-> w, ret |-> vec[Len(vec) - diff + 1], asserted |-> bad1]
        ELSE IF ledgerIndex % 256 # 0
        THEN [w |-> w, ret |-> 0, asserted |-> bad1]
        ELSE IF has2 /\ Len(vec2) > sDiff
        THEN [w |-> w, ret |-> vec2[Len(vec2) - sDiff], asserted |-> bad1 \/ bad2]
        ELSE [w |-> w, ret |-> 0, asserted |-> bad1 \/ bad2]

-----------------------------------------------------------------------------
(* Ledger constructors *)

LedgerTimeResolution == <<10, 10, 20, 30, 60, 90, 120, 120>>
LEDGER_RES_INCREASE == 8
LEDGER_RES_DECREASE == 1

ResolutionIndex(r) ==
    CHOOSE k \in 2..7 : LedgerTimeResolution[k] = r

\* ContinuousLedgerTiming::getNextLedgerTimeResolution
getNextLedgerTimeResolution(previousResolution, previousAgree, ledgerSeq) ==
    IF ~previousAgree /\ ledgerSeq % LEDGER_RES_DECREASE = 0
    THEN LedgerTimeResolution[ResolutionIndex(previousResolution) + 1]
    ELSE IF previousAgree /\ ledgerSeq % LEDGER_RES_INCREASE = 0
         THEN LedgerTimeResolution[ResolutionIndex(previousResolution) - 1]
         ELSE previousResolution

getCloseAgree(L) == (L.mCloseFlags % 2) = 0

\* Ledger (ledgerSeq, closeTime): an empty ledger, as loaded from a JSON file
LedgerFromJSON(w, ledgerSeq, closeTime) ==
    LET w1 == SHAMap_new(w, smtTRANSACTION)
        w2 == SHAMap_new(w1, smtSTATE)
        L  == [RawLedger EXCEPT !.mTotCoins = 0,
                                !.mLedgerSeq = ledgerSeq,
                                !.mCloseTime = closeTime,
                                !.mParentCloseTime = 0,
                                !.mCloseResolution = LEDGER_TIME_ACCURACY,
                                !.mCloseFlags = 0,
                                !.mTransactionMap = Len(w1.maps),
                                !.mAccountStateMap = Len(w2.maps)]
    IN  [w2 EXCEPT !.ledgers = Append(@, initializeFees(L))]

\* Ledger (rawLedger, hasPrefix): a ledger read from a serialized header
LedgerFromBlob(w, rawLedger, hasPrefix) ==
    LET w1 == [w EXCEPT !.ledgers = Append(@, [RawLedger EXCEPT
                                                  !.mImmutable = TRUE])]
        i  == Len(w1.ledgers)
        w2 == setRaw(w1, i, rawLedger, hasPrefix)
    IN  [w2 EXCEPT !.ledgers[i] = initializeFees(@)]

\* the genesis constructor numbering the first ledger 0
LedgerGenesis_SeqZero(w, masterID, startAmount) ==
    LET w1 == SHAMap_new(w, smtTRANSACTION)
        w2 == SHAMap_new(w1, smtSTATE)
        L  == [RawLedger EXCEPT !.mTotCoins = startAmount,
                                !.mLedgerSeq = 0,
                                !.mCloseResolution = LEDGER_TIME_ACCURACY,
                                !.mTransactionMap = Len(w1.maps),
                                !.mAccountStateMap = Len(w2.maps)]
        w3 == [w2 EXCEPT !.ledgers = Append(@, L)]
        k  == getAccountRootIndex(masterID)
        r  == writeBack(w3, Len(w3.ledgers), lepCREATE,
                        AccountRootSLE(k, startAmount, 1))
    IN  r.w

\* Ledger (masterID, startAmount): the genesis ledger
LedgerGenesis(w, masterID, startAmount) ==
    LET w1 == SHAMap_new(w, smtTRANSACTION)
        w2 == SHAMap_new(w1, smtSTATE)
        L  == [RawLedger EXCEPT !.mTotCoins = startAmount,
                                !.mLedgerSeq = 1,
                                !.mCloseTime = 0,
                                !.mParentCloseTime = 0,
                                !.mCloseResolution = LEDGER_TIME_ACCURACY,
                                !.mCloseFlags = 0,
                                !.mTransactionMap = Len(w1.maps),
                                !.mAccountStateMap = Len(w2.maps)]
        w3 == [w2 EXCEPT !.ledgers = Append(@, L)]
        i  == Len(w3.ledgers)
        k  == getAccountRootIndex(masterID)
        r  == writeBack(w3, i, lepCREATE, AccountRootSLE(k, startAmount, 1))
    IN  [r.w EXCEPT !.ledgers[i] = initializeFees(@)]

\* the snapshot constructor keeping the source's map objects
LedgerSnapshot_SharedMaps(w, i, isMutable) ==
    LET P  == w.ledgers[i]
        L  == [P EXCEPT !.mHash = 0, !.mTransHash = 0, !.mAccountHash = 0,
                        !.mValidHash = FALSE, !.mImmutable = ~isMutable]
        w3 == [w EXCEPT !.ledgers = Append(@, L)]
    IN  updateHash(w3, Len(w3.ledgers))

\* Ledger (ledger, isMutable): a snapshot of ledger i
LedgerSnapshot(w, i, isMutable) ==
    LET P  == w.ledgers[i]
        w1 == SHAMap_snapShot(w, P.mTransactionMap, isMutable)
        w2 == SHAMap_snapShot(w1, P.mAccountStateMap, isMutable)
        L  == [RawLedger EXCEPT !.mParentHash = P.mParentHash,
                                !.mTotCoins = P.mTotCoins,
                                !.mLedgerSeq = P.mLedgerSeq,
                                !.mCloseTime = P.mCloseTime,
                                !.mParentCloseTime = P.mParentCloseTime,
                                !.mCloseResolution = P.mCloseResolution,
                                !.mCloseFlags = P.mCloseFlags,
                                !.mClosed = P.mClosed,
                                !.mValidated = P.mValidated,
                                !.mValidHash = FALSE,
                                !.mAccepted = P.mAccepted,
                                !.mImmutable = ~isMutable,
                                !.mTransactionMap = Len(w1.maps),
                                !.mAccountStateMap = Len(w2.maps)]
        w3 == [w2 EXCEPT !.ledgers = Append(@, L)]
        w4 == updateHash(w3, Len(w3.ledgers))
    IN  [w4 EXCEPT !.ledgers[Len(w3.ledgers)] = initializeFees(@)]

\* the successor constructor that adds the parent's close resolution, not the
\* successor's, to the parent's close time
LedgerSuccessor_ParentResolution(w, p, now) ==
    LET P  == w.ledgers[p]
        w1 == SHAMap_new(w, smtTRANSACTION)
        w2 == SHAMap_snapShot(w1, P.mAccountStateMap, TRUE)
        w3 == updateHash(w2, p)
        ph == getHash(w3, p)
        P1 == ph.w.ledgers[p]
        res == getNextLedgerTimeResolution(P1.mCloseResolution,
                                           getCloseAgree(P1), P1.mLedgerSeq + 1)
        L  == [RawLedger EXCEPT !.mTotCoins = P.mTotCoins,
                                !.mLedgerSeq = P.mLedgerSeq + 1,
                                !.mParentCloseTime = P.mCloseTime,
                                !.mCloseFlags = 0,
                                !.mParentHash = ph.ret,
                                !.mCloseResolution = res,
                                !.mCloseTime =
                                    IF P1.mCloseTime = 0
                                    THEN Rounded(now, P1.mCloseResolution)
                                    ELSE P1.mCloseTime + P1.mCloseResolution,
                                !.mTransactionMap = Len(w1.maps),
                                !.mAccountStateMap = Len(w2.maps)]
    IN  [ph.w EXCEPT !.ledgers = Append(@, initializeFees(L))]

\* Ledger (dummy, prevLedger): the ledger that follows ledger p;
\* now is the network close time the constructor reads
LedgerSuccessor(w, p, now) ==
    LET P  == w.ledgers[p]
        w1 == SHAMap_new(w, smtTRANSACTION)
        w2 == SHAMap_snapShot(w1, P.mAccountStateMap, TRUE)
        w3 == updateHash(w2, p)
        ph == getHash(w3, p)
        P1 == ph.w.ledgers[p]
        res == getNextLedgerTimeResolution(P1.mCloseResolution,
                                           getCloseAgree(P1), P1.mLedgerSeq + 1)
        L  == [RawLedger EXCEPT !.mTotCoins = P.mTotCoins,
                                !.mLedgerSeq = P.mLedgerSeq + 1,
                                !.mParentCloseTime = P.mCloseTime,
                                !.mCloseFlags = 0,
                                !.mParentHash = ph.ret,
                                !.mCloseResolution = res,
                                !.mCloseTime =
                                    IF P1.mCloseTime = 0
                                    THEN Rounded(now, res)
                                    ELSE P1.mCloseTime + res,
                                !.mTransactionMap = Len(w1.maps),
                                !.mAccountStateMap = Len(w2.maps)]
    IN  [ph.w EXCEPT !.ledgers = Append(@, initializeFees(L))]

-----------------------------------------------------------------------------
(* The ledger operations as actions *)

Masters == {1}
Accounts == {2}
Written == Masters \cup Accounts
StartAmounts == {100000}
Balances == {50}
TxIDs == {7001}
Txns == {<<11>>}
CoinValues == {99990}
Fees == {10}
CloseTimes == {44}
Resolutions == {30}
NetTimes == {1000}

NoQuery == [made |-> FALSE, t |-> 0, ret |-> 0, asserted |-> FALSE]

\* root: how the chain's first ledger was built; hashes: the hashes of the
\* chain's ledgers in order, each recorded when its successor was built; updated: the tip ran updateSkipList; query: the
\* last getLedgerHash call on the tip, what it returned and whether one of
\* its assertions failed (a build with assertions stops there)
NoChain == [root |-> "none", hashes |-> <<>>, updated |-> FALSE,
            query |-> NoQuery]

\* op: the accessor called last, on ledger led for key with requested type
\* let and input parms given; sle, parms: what it returned
NoHeld == [op |-> "none", led |-> 0, key |-> 0, let |-> 0, given |-> 0,
           sle |-> NullSLE, parms |-> 0]

\* nothing computed yet
NoBook == [host |-> "none", base |-> <<>>, rate |-> <<>>, index |-> <<>>,
           quality |-> <<>>, next |-> <<>>, ofBook |-> FALSE]

-----------------------------------------------------------------------------
(* ResolverAsioImpl: the resolver object with its completion counter, the
   handlers posted to its strand, the resolutions the operating system has
   in flight, and the threads that call it.  A build with assertions stops
   at a failed assertion, so an operation is called only where its
   assertions hold. *)

isspace(c) == c = " "

find_port_separator(c) == isspace(c) \/ c = ":"

\* where a predicate holds in a string, position by position
find_whitespace(str) == [k \in 1..Len(str) |-> isspace(str[k])]

find_separator(str) == [k \in 1..Len(str) |-> find_port_separator(str[k])]

\* std::find_if, std::find_if_not over the positions first .. last - 1
find_if(pred, first, last) ==
    IF \E k \in first..(last - 1) : pred[k]
    THEN CHOOSE k \in first..(last - 1) :
             pred[k] /\ \A j \in first..(k - 1) : ~pred[j]
    ELSE last

find_if_not(pred, first, last) ==
    IF \E k \in first..(last - 1) : ~pred[k]
    THEN CHOOSE k \in first..(last - 1) :
             ~pred[k] /\ \A j \in first..(k - 1) : pred[j]
    ELSE last

\* find_if_not over the reversed string, as the base of the reverse iterator:
\* one past the last position where pred fails, the first position if none
rfind_if_not_base(pred) ==
    IF \E k \in 1..Len(pred) : ~pred[k]
    THEN 1 + CHOOSE k \in 1..Len(pred) :
                 ~pred[k] /\ \A j \in (k + 1)..Len(pred) : pred[j]
    ELSE 1

\* the host and the port of a name
parseName(str) ==
    LET host_first == find_if_not(find_whitespace(str), 1, Len(str) + 1)
        port_last == rfind_if_not_base(find_whitespace(str))
    IN  IF host_first >= port_last
        THEN <<<<>>, <<>>>>
        ELSE LET host_last ==
                     find_if(find_separator(str), host_first, port_last)
                 port_first ==
                     find_if_not(find_separator(str), host_last, port_last)
             IN  <<SubSeq(str, host_first, host_last - 1),
                   SubSeq(str, port_first, port_last - 1)>>

\* a unit of work: the names in reverse order, and the handler
Work(names, handler) == [names |-> Reverse(names), handler |-> handler]

\* a thread that calls the resolver: where it is, whether its last stop()
\* was called after start() had returned, and whether that stop() returned
IdleCaller == [pc |-> "idle", started |-> FALSE, returned |-> FALSE]

Callers == 1..NumCallers

\* the object after construction; started, orderly, stops, released, handled,
\* asserted are history: start() has returned, the stop was requested after
\* start() had returned, do_stop ran so many times, do_stop released the
\* start reference so many times, the handlers called with their arguments,
\* the assertions that failed in a run that goes on after a failure, and what
\* happened to each name in order: queued, started, skipped, handled
ResolverAsioImpl ==
    [m_stop_complete |-> TRUE,
     m_stop_called   |-> FALSE,
     m_stopped       |-> TRUE,
     m_work          |-> <<>>,
     m_pending       |-> 0,
     strand          |-> EmptyBag,
     resolving       |-> EmptyBag,
     callers         |-> [t \in Callers |-> IdleCaller],
     resolves        |-> 0,
     started         |-> FALSE,
     orderly         |-> FALSE,
     stops           |-> 0,
     released        |-> 0,
     handled         |-> {},
     asserted        |-> {},
     log             |-> <<>>]

\* an entry of the log
Event(ev, handler, name, ec, addresses) ==
    [ev |-> ev, handler |-> handler, name |-> name, ec |-> ec,
     addresses |-> addresses]

asyncHandlersComplete(r) == [r EXCEPT !.m_stop_complete = TRUE]

addReference(r) == [r EXCEPT !.m_pending = @ + 1]

removeReference(r) ==
    IF r.m_pending - 1 = 0
    THEN asyncHandlersComplete([r EXCEPT !.m_pending = 0])
    ELSE [r EXCEPT !.m_pending = @ - 1]

\* a handler bound with a CompletionCounter
Bound(fn, names, handler) == [fn |-> fn, names |-> names, handler |-> handler]

\* io_service dispatch or post of a handler wrapped by the strand: the
\* counter bound to the handler holds a reference until the handler is
\* destroyed
post(r, h) == [addReference(r) EXCEPT !.strand = @ (+) SetToBag({h})]

\* the resolver starts a resolution whose completion calls do_finish
async_resolve(r, name, hp, handler) ==
    [addReference(r) EXCEPT
        !.resolving = @ (+) SetToBag({[name |-> name, query |-> hp,
                                       handler |-> handler,
                                       ec |-> "pending"]})]

\* every resolution in flight completes with operation_aborted
cancel(resolving) ==
    LET qs == BagToSet(resolving)
        to(q) == IF q.ec = "pending" THEN [q EXCEPT !.ec = "aborted"] ELSE q
        aborted == {to(q) : q \in qs}
        count(a) == LET from == {q \in qs : to(q) = a}
                        Sum[S \in SUBSET from] ==
                            IF S = {} THEN 0
                            ELSE LET q == CHOOSE x \in S : TRUE
                                 IN  CopiesIn(q, resolving) + Sum[S \ {q}]
                    IN  Sum[from]
    IN  [a \in aborted |-> count(a)]

stop_async(r) ==
    IF r.m_stop_called = FALSE
    THEN post([r EXCEPT !.m_stop_called = TRUE, !.orderly = r.started],
              Bound("do_stop", <<>>, ""))
    ELSE r

do_stop(r) ==
    IF r.m_stopped = FALSE
    THEN removeReference([r EXCEPT !.m_stopped = TRUE,
                                   !.m_work = <<>>,
                                   !.resolving = cancel(@),
                                   !.stops = @ + 1,
                                   !.released = @ + 1])
    ELSE [r EXCEPT !.stops = @ + 1]

\* the addresses a resolution gives: none on an error
Addresses(q) == IF q.ec = "ok" THEN <<q.query>> ELSE <<>>

do_finish(r, q) ==
    IF q.ec = "aborted"
    THEN r
    ELSE post([r EXCEPT !.handled = @ \cup {[handler |-> q.handler,
                                             name |-> q.name,
                                             addresses |-> Addresses(q)]},
                        !.log = Append(@, Event("handled", q.handler, q.name,
                                                q.ec, Addresses(q)))],
              Bound("do_work", <<>>, ""))

\* do_work that posts no do_work after a name it cannot parse
do_work_SkipStalls(r) ==
    IF r.m_stop_called = TRUE
    THEN r
    ELSE IF r.m_work = <<>>
    THEN r
    ELSE LET front == Head(r.m_work)
             name == front.names[Len(front.names)]
             handler == front.handler
             names == SubSeq(front.names, 1, Len(front.names) - 1)
             popped == [r EXCEPT !.m_work =
                           IF names = <<>>
                           THEN Tail(@)
                           ELSE <<[front EXCEPT !.names = names]>> \o Tail(@)]
             hp == parseName(name)
             taken(ev) == [popped EXCEPT !.log =
                              Append(@, Event(ev, handler, name, "", <<>>))]
         IN  IF hp[1] = <<>>
             THEN taken("skipped")
             ELSE async_resolve(taken("started"), name, hp, handler)

do_work(r) ==
    IF r.m_stop_called = TRUE
    THEN r
    ELSE IF r.m_work = <<>>
    THEN r
    ELSE LET front == Head(r.m_work)
             name == front.names[Len(front.names)]
             handler == front.handler
             names == SubSeq(front.names, 1, Len(front.names) - 1)
             popped == [r EXCEPT !.m_work =
                           IF names = <<>>
                           THEN Tail(@)
                           ELSE <<[front EXCEPT !.names = names]>> \o Tail(@)]
             hp == parseName(name)
             taken(ev) == [popped EXCEPT !.log =
                              Append(@, Event(ev, handler, name, "", <<>>))]
         IN  IF hp[1] = <<>>
             THEN post(taken("skipped"), Bound("do_work", <<>>, ""))
             ELSE async_resolve(taken("started"), name, hp, handler)

do_resolve(r, names, handler) ==
    IF r.m_stop_called = FALSE
    THEN LET queued == [r EXCEPT
                 !.m_work = Append(@, Work(names, handler)),
                 !.log = @ \o [j \in 1..Len(names) |->
                                  Event("queued", handler, names[j], "", <<>>)]]
         IN  IF Len(queued.m_work) = 1
             THEN post(queued, Bound("do_work", <<>>, ""))
             ELSE queued
    ELSE r

\* a thread outside the fee accessors
NoLocals == [baseFee |-> 0, referenceFeeUnits |-> 0, reserveBase |-> 0,
             reserveIncrement |-> 0, sle |-> NullSLE]

IdleFees == [pc |-> "idle", k |-> 0, led |-> 0, accessor |-> "", arg |-> 0,
             locals |-> NoLocals, call |-> 0, ret |-> 0]

\* at: the callers; lock: the holder of sPendingSaveLock, 0 if free; calls:
\* history, the accessor calls made; log: history, the assignments made
NoFees == [at |-> [t \in 1..NumThreads |-> IdleFees], lock |-> 0,
           calls |-> 0, log |-> <<>>]

NoRows == [Ledgers |-> {}, Transactions |-> {}, AccountTransactions |-> {}]

NoWalk == [op |-> "none", account |-> 0, startAfter |-> 0, hint |-> 0,
           limit |-> 0, fn |-> "none", calls |-> <<>>, ret |-> TRUE,
           done |-> TRUE]

NoCalc == [op |-> "none", args |-> <<>>, ret |-> <<>>]

\* a thread outside pendSaveValidated; ret is what its last call returned
IdleThread == [pc |-> "idle", led |-> 0, ret |-> TRUE]

Threads == 1..NumThreads

Init ==
    /\ digests = <<>>
    /\ maps = <<>>
    /\ ledgers = <<>>
    /\ origin = <<>>
    /\ chain = NoChain
    /\ hashRouter = {}
    /\ sPendingSaves = {}
    /\ jobQueue = EmptyBag
    /\ threads = [t \in Threads |-> IdleThread]
    /\ saves = EmptyBag
    /\ sleCache = <<>>
    /\ held = NoHeld
    /\ book = NoBook
    /\ calc = NoCalc
    /\ owned = [a \in Written |-> <<>>]
    /\ walk = NoWalk
    /\ db = NoRows
    /\ resolver = ResolverAsioImpl
    /\ fees = NoFees

dirVars == <<owned, walk>>

auxVars == <<calc, dirVars, resolver, fees>>

accessVars == <<sleCache, held, book, auxVars>>

saveVars == <<hashRouter, sPendingSaves, jobQueue, threads, saves, db>>

Fits(w) == Len(w.digests) <= MaxDigests /\ Len(w.ledgers) <= MaxLedgers

Commit(w) ==
    /\ digests' = w.digests
    /\ maps' = w.maps
    /\ ledgers' = w.ledgers

Live == 1..Len(ledgers)

Genesis(masterID, startAmount) ==
    LET w == LedgerGenesis(World, masterID, startAmount)
    IN  /\ Fits(w)
        /\ Commit(w)
        /\ origin' = Append(origin, [kind |-> "genesis", src |-> 0])
        /\ UNCHANGED <<chain, saveVars, accessVars>>

Snapshot(i, isMutable) ==
    LET w == LedgerSnapshot(World, i, isMutable)
    IN  /\ Fits(w)
        /\ Commit(w)
        /\ origin' = Append(origin, [kind |-> "snapshot", src |-> i])
        /\ UNCHANGED <<chain, saveVars, accessVars>>

Successor(p, now) ==
    LET w == LedgerSuccessor(World, p, now)
    IN  /\ ledgers[p].mLedgerSeq < MaxSeq
        /\ Fits(w)
        /\ Commit(w)
        /\ origin' = Append(origin, [kind |-> "successor", src |-> p])
        /\ UNCHANGED <<chain, saveVars, accessVars>>

UpdateHash(i) ==
    LET w == updateHash(World, i)
    IN  /\ Fits(w)
        /\ Commit(w)
        /\ UNCHANGED <<origin, chain, saveVars, accessVars>>

GetHash(i) ==
    LET r == getHash(World, i)
    IN  /\ Fits(r.w)
        /\ Commit(r.w)
        /\ UNCHANGED <<origin, chain, saveVars, accessVars>>

WriteBack(i, parms, account, balance) ==
    LET k == getAccountRootIndex(account)
        r == writeBack(World, i, parms, AccountRootSLE(k, balance, 1))
    IN  /\ Fits(r.w)
        /\ Commit(r.w)
        /\ UNCHANGED <<origin, chain, saveVars, accessVars>>

AddSLE(i, account, balance) ==
    LET k == getAccountRootIndex(account)
        r == addSLE(World, i, AccountRootSLE(k, balance, 1))
    IN  /\ Fits(r.w)
        /\ Commit(r.w)
        /\ UNCHANGED <<origin, chain, saveVars, accessVars>>

AddTransaction(i, txID, txn) ==
    LET r == addTransaction(World, i, txID, txn)
    IN  /\ Commit(r.w)
        /\ UNCHANGED <<origin, chain, saveVars, accessVars>>

\* setTotalCoins
SetTotalCoins(i, totCoins) ==
    /\ ledgers' = [ledgers EXCEPT ![i].mTotCoins = totCoins]
    /\ UNCHANGED <<digests, maps, origin, chain, saveVars, accessVars>>

\* destroyCoins: a fee taken out of the total
DestroyCoins(i, fee) ==
    /\ fee <= ledgers[i].mTotCoins
    /\ ledgers[i].mTotCoins - fee \in CoinValues
    /\ ledgers' = [ledgers EXCEPT ![i].mTotCoins = @ - fee]
    /\ UNCHANGED <<digests, maps, origin, chain, saveVars, accessVars>>

\* setCloseTime asserts the ledger is mutable: a build with assertions
\* stops the process there, a build without them stores the time
SetCloseTime(i, ct, asserts) ==
    /\ ~(asserts /\ ledgers[i].mImmutable)
    /\ ledgers' = [ledgers EXCEPT ![i].mCloseTime = ct]
    /\ UNCHANGED <<digests, maps, origin, chain, saveVars, accessVars>>

SetClosed(i) ==
    /\ ledgers' = [ledgers EXCEPT ![i].mClosed = TRUE]
    /\ UNCHANGED <<digests, maps, origin, chain, saveVars, accessVars>>

SetValidated(i) ==
    /\ ledgers' = [ledgers EXCEPT ![i].mValidated = TRUE]
    /\ UNCHANGED <<digests, maps, origin, chain, saveVars, accessVars>>

SetImmutable(i) ==
    LET w == setImmutable(World, i)
    IN  /\ Fits(w)
        /\ Commit(w)
        /\ UNCHANGED <<origin, chain, saveVars, accessVars>>

\* setAccepted (closeTime, closeResolution, correctCloseTime) asserts
\* mClosed && !mAccepted
SetAcceptedAt(i, closeTime, closeResolution, correctCloseTime, asserts) ==
    LET w == setAcceptedAt(World, i, closeTime, closeResolution, correctCloseTime)
    IN  /\ ~(asserts /\ ~(ledgers[i].mClosed /\ ~ledgers[i].mAccepted))
        /\ Fits(w)
        /\ Commit(w)
        /\ UNCHANGED <<origin, chain, saveVars, accessVars>>

SetAccepted(i) ==
    LET w == setAccepted(World, i)
    IN  /\ Fits(w)
        /\ Commit(w)
        /\ UNCHANGED <<origin, chain, saveVars, accessVars>>

Next ==
    \/ \E a \in Masters, c \in StartAmounts : Genesis(a, c)
    \/ \E i \in Live, b \in BOOLEAN : Snapshot(i, b)
    \/ \E i \in Live, t \in NetTimes : Successor(i, t)
    \/ \E i \in Live : UpdateHash(i)
    \/ \E i \in Live, p \in {lepNONE, lepCREATE}, a \in Written, b \in Balances :
          WriteBack(i, p, a, b)
    \/ \E i \in Live, a \in Accounts, b \in Balances : AddSLE(i, a, b)
    \/ \E i \in Live, t \in TxIDs, x \in Txns : AddTransaction(i, t, x)

Spec == Init /\ [][Next]_vars

-----------------------------------------------------------------------------
(* The lifecycle of ledger objects: the operations that set a flag or the
   close time, in any order a caller may choose *)

NextLife ==
    \/ \E a \in Masters, c \in StartAmounts : Genesis(a, c)
    \/ \E i \in Live, b \in BOOLEAN : Snapshot(i, b)
    \/ \E i \in Live : SetClosed(i)
    \/ \E i \in Live, ct \in CloseTimes, r \in Resolutions,
          c \in BOOLEAN, a \in BOOLEAN : SetAcceptedAt(i, ct, r, c, a)
    \/ \E i \in Live : SetAccepted(i)
    \/ \E i \in Live : SetValidated(i)
    \/ \E i \in Live : SetImmutable(i)
    \/ \E i \in Live, ct \in CloseTimes, a \in BOOLEAN : SetCloseTime(i, ct, a)

SpecLife == Init /\ [][NextLife]_vars

(* A ledger and the operations that write to it, before and after it is
   sealed *)

NextSeal ==
    \/ \E a \in Masters, c \in StartAmounts : Len(ledgers) = 0 /\ Genesis(a, c)
    \/ \E i \in Live : SetImmutable(i)
    \/ \E i \in Live : SetAccepted(i)
    \/ \E i \in Live, ct \in CloseTimes, a \in BOOLEAN : SetCloseTime(i, ct, a)
    \/ \E i \in Live, c \in CoinValues : SetTotalCoins(i, c)
    \/ \E i \in Live, f \in Fees : DestroyCoins(i, f)
    \/ \E i \in Live, p \in {lepNONE, lepCREATE}, a \in Accounts, b \in Balances :
          WriteBack(i, p, a, b)
    \/ \E i \in Live, a \in Accounts, b \in Balances : AddSLE(i, a, b)
    \/ \E i \in Live, t \in TxIDs, x \in Txns : AddTransaction(i, t, x)
    \/ \E i \in Live : UpdateHash(i)
    \/ \E i \in Live : GetHash(i)

SpecSeal == Init /\ [][NextSeal]_vars

-----------------------------------------------------------------------------
(* The typed accessors of one ledger: a caller reads entries, changes the
   entry object it holds and writes entries back *)

ParmsIn == {lepNONE, lepCREATE}
EntryTypes == {ltACCOUNT_ROOT, ltLEDGER_HASHES}
HeldBalances == {60}

Hold(op, i, key, let, given, sle, parms) ==
    [op |-> op, led |-> i, key |-> key, let |-> let, given |-> given,
     sle |-> sle, parms |-> parms]

GetASNode(i, parms, account, let) ==
    LET k == getAccountRootIndex(account)
        r == getASNode(World, i, parms, k, let)
    IN  /\ held' = Hold("getASNode", i, k, let, parms, r.sle, r.parms)
        /\ UNCHANGED <<digests, maps, ledgers, origin, chain, saveVars, auxVars, sleCache, book>>

GetSLE(i, account) ==
    LET k == getAccountRootIndex(account)
    IN  /\ held' = Hold("getSLE", i, k, 0, 0,
                        IF hasSLE(World, i, k) THEN getSLE(World, i, k)
                                               ELSE NullSLE, 0)
        /\ UNCHANGED <<digests, maps, ledgers, origin, chain, saveVars, auxVars, sleCache, book>>

GetSLEi(i, account) ==
    LET k == getAccountRootIndex(account)
        r == getSLEi(World, sleCache, i, k)
    IN  /\ held' = Hold("getSLEi", i, k, 0, 0, r.sle, 0)
        /\ sleCache' = r.cache
        /\ UNCHANGED <<digests, maps, ledgers, origin, chain, saveVars, auxVars, book>>

\* the cache drops its entries (they expire)
CacheSweep ==
    /\ sleCache' = <<>>
    /\ UNCHANGED <<digests, maps, ledgers, origin, chain, saveVars, auxVars, held, book>>

\* the caller sets a field of the entry object it holds; an entry from
\* getSLEi is immutable
ModifyHeld(balance) ==
    /\ held.sle.type = ltACCOUNT_ROOT
    /\ held.op # "getSLEi"
    /\ held' = [held EXCEPT !.sle.Balance = balance]
    /\ UNCHANGED <<digests, maps, ledgers, origin, chain, saveVars, auxVars, sleCache, book>>

\* the caller writes the entry it holds back to ledger i
WriteBackHeld(i, parms) ==
    LET r == writeBack(World, i, parms, held.sle)
    IN  /\ held.sle # NullSLE
        /\ Fits(r.w)
        /\ Commit(r.w)
        /\ UNCHANGED <<origin, chain, saveVars, accessVars>>

NextAccess ==
    \/ \E a \in Masters, c \in StartAmounts : Len(ledgers) = 0 /\ Genesis(a, c)
    \/ \E i \in Live, p \in ParmsIn, a \in Written, b \in Balances :
          WriteBack(i, p, a, b)
    \/ \E i \in Live, p \in ParmsIn, a \in Written, t \in EntryTypes :
          GetASNode(i, p, a, t)
    \/ \E i \in Live, a \in Written : GetSLE(i, a)
    \/ \E i \in Live, a \in Written : GetSLEi(i, a)
    \/ CacheSweep
    \/ \E b \in HeldBalances : ModifyHeld(b)
    \/ \E i \in Live, p \in ParmsIn : WriteBackHeld(i, p)

SpecAccess == Init /\ [][NextAccess]_vars

-----------------------------------------------------------------------------
(* Ledger headers serialized and read back *)

\* the ledgers that were not read from a blob: their trees are resident
Built == {i \in Live : origin[i].kind # "blob"}

\* the header of ledger i is serialized, with the ledgerMaster prefix in
\* front or without it, and a ledger is constructed from the bytes
FromBlob(i, hasPrefix) ==
    LET body == getRaw(ledgers[i])
        blob == IF hasPrefix
                THEN BigEndian(HashPrefix_ledgerMaster, 4) \o body ELSE body
        w    == LedgerFromBlob(World, blob, hasPrefix)
    IN  /\ \A n \in Live : origin[n].kind # "blob"
        /\ Len(w.digests) <= MaxDigests
        /\ Commit(w)
        /\ origin' = Append(origin, [kind |-> "blob", src |-> i])
        /\ UNCHANGED <<chain, saveVars, accessVars>>

NextRaw ==
    \/ \E a \in Masters, c \in StartAmounts : Len(ledgers) = 0 /\ Genesis(a, c)
    \/ \E i \in Built, t \in NetTimes : Built = Live /\ Successor(i, t)
    \/ \E i \in Built, t \in TxIDs, x \in Txns : AddTransaction(i, t, x)
    \/ \E i \in Built : UpdateHash(i)
    \/ \E i \in Built, ct \in CloseTimes, r \in Resolutions,
          c \in BOOLEAN, a \in BOOLEAN : SetAcceptedAt(i, ct, r, c, a)
    \/ \E i \in Built, c \in CoinValues : SetTotalCoins(i, c)
    \/ \E i \in Live, b \in BOOLEAN : FromBlob(i, b)

SpecRaw == Init /\ [][NextRaw]_vars

-----------------------------------------------------------------------------
(* Quality indexes computed from a base and a rate *)

\* rates (uint64), as digits
Rates ==
    {BigEndian(0, 8), BigEndian(1, 8), BigEndian(255, 8), BigEndian(256, 8),
     <<0, 0, 0, 1, 0, 0, 0, 0>>, <<1, 0, 0, 0, 0, 0, 0, 0>>,
     <<85, 3, 141, 126, 164, 198, 128, 0>>, [j \in 1..8 |-> 255]}

\* bases (uint256) that are not book bases
Bases ==
    {BookHashes[bk] : bk \in Books} \cup {[j \in 1..32 |-> 255]}

\* what the four functions give for base uBase and rate uRate
Quality(uBase, uRate, host, ofBook) ==
    [host    |-> host,
     base    |-> uBase,
     rate    |-> uRate,
     index   |-> getQualityIndex(uBase, uRate, host),
     quality |-> getQuality(getQualityIndex(uBase, uRate, host), host),
     next    |-> getQualityNext(uBase),
     ofBook  |-> ofBook]

\* the host byte order is that of the build: it never changes
SameHost(host) == book.host \in {"none", host}

\* getQualityIndex and getQuality on any base
QualityOfBase(uBase, uRate, host) ==
    /\ SameHost(host)
    /\ book' = Quality(uBase, uRate, host, FALSE)
    /\ UNCHANGED <<digests, maps, ledgers, origin, chain, saveVars, auxVars,
                   sleCache, held>>

\* CreateOffer: the directory of rate uRate in the book bk
QualityOfBook(bk, uRate, host) ==
    /\ SameHost(host)
    /\ book' = Quality(getBookBase(bk, host), uRate, host, TRUE)
    /\ UNCHANGED <<digests, maps, ledgers, origin, chain, saveVars, auxVars,
                   sleCache, held>>

NextQuality ==
    \/ \E b \in Bases, r \in Rates, h \in Hosts : QualityOfBase(b, r, h)
    \/ \E bk \in Books, r \in Rates, h \in Hosts : QualityOfBook(bk, r, h)

SpecQuality == Init /\ [][NextQuality]_vars

-----------------------------------------------------------------------------
(* Keys and close times computed from their arguments *)

\* account identifiers (160 bits), as bytes
AccountIDs ==
    {[j \in 1..20 |-> 0], [j \in 1..20 |-> IF j = 20 THEN 1 ELSE 0],
     [j \in 1..20 |-> IF j = 1 THEN 1 ELSE 0], [j \in 1..20 |-> 255]}

\* currency codes (160 bits), as bytes; the first is XRP
Currencies ==
    {[j \in 1..20 |-> 0],
     [j \in 1..20 |-> IF j = 13 THEN 85 ELSE IF j = 14 THEN 83
                      ELSE IF j = 15 THEN 68 ELSE 0],
     [j \in 1..20 |-> 255]}

\* close times (uint32): around 0, around half a resolution, around 2^16 and
\* 2^31, and the last values before 2^32
TimeValues ==
    {U32(0), U32(1), U32(14), U32(15), U32(16), U32(44), U32(45), U32(59),
     U32(65535), U32(65536), <<32767, 65535>>, <<32768, 0>>,
     <<65535, 65475>>, <<65535, 65476>>, <<65535, 65520>>, <<65535, 65521>>,
     <<65535, 65535>>}

\* close resolutions: those of LedgerTimeResolution and the smallest ones
ResolutionValues == {1, 2, 3, 10, 20, 30, 60, 90, 120}

RippleStateIndex(a, b, currency) ==
    /\ calc' = [op   |-> "getRippleStateIndex",
                args |-> <<a, b, currency>>,
                ret  |-> getRippleStateIndex(a, b, currency)]
    /\ UNCHANGED <<digests, maps, ledgers, origin, chain, saveVars,
                   sleCache, held, book, resolver, fees, dirVars>>

RoundCloseTime(closeTime, closeResolution) ==
    /\ calc' = [op   |-> "roundCloseTime",
                args |-> <<closeTime, closeResolution>>,
                ret  |-> roundCloseTime(closeTime, closeResolution)]
    /\ UNCHANGED <<digests, maps, ledgers, origin, chain, saveVars,
                   sleCache, held, book, resolver, fees, dirVars>>

NextKeys ==
    \/ \E a \in AccountIDs, b \in AccountIDs, c \in Currencies :
           RippleStateIndex(a, b, c)
    \/ \E t \in TimeValues, r \in ResolutionValues : RoundCloseTime(t, r)

SpecKeys == Init /\ [][NextKeys]_vars

-----------------------------------------------------------------------------
(* The owner directories of an open ledger: offers are created and deleted, *)
(* and the directories are walked                                           *)

OfferSequences == 1..MaxOffers

\* the accounts that place offers
Owners == Accounts

\* cursors: none, the offers of the model, and a key that is no offer
Cursors ==
    {0, getAccountRootIndex(1)}
        \cup {getOfferIndex(a, q) : a \in Owners, q \in OfferSequences}

Hints == 0..MaxPage

Limits == 0..2

\* the cache after an operation: above its target size it drops its entries
Swept(cache) ==
    IF Cardinality(DOMAIN cache) <= MaxCached THEN cache ELSE <<>>

\* CreateOffer: the offer enters its owner's directory and the state map
CreateOffer(i, account, uSequence) ==
    LET uLedgerIndex == getOfferIndex(account, uSequence)
        r == dirAdd(World, i, getOwnerDirIndex(account), uLedgerIndex)
        w == PutSLE(r.w, i, OfferSLE(uLedgerIndex, uSequence, r.ret))
    IN  /\ uLedgerIndex \notin Range(owned[account])
        /\ r.ret <= MaxPage
        /\ Commit(w)
        /\ owned' = [owned EXCEPT ![account] = Append(@, uLedgerIndex)]
        /\ walk' = NoWalk
        /\ UNCHANGED <<origin, chain, saveVars, sleCache, held, book, resolver, fees, calc>>

\* offerDelete of the transaction layer: the offer leaves the page its
\* OwnerNode names, and the state map
DeleteOffer(i, account, uSequence) ==
    LET uLedgerIndex == getOfferIndex(account, uSequence)
        r == dirDelete(World, i, getSLE(World, i, uLedgerIndex).OwnerNode,
                       getOwnerDirIndex(account), uLedgerIndex)
    IN  /\ uLedgerIndex \in Range(owned[account])
        /\ Commit(DelSLE(r.w, i, uLedgerIndex))
        /\ owned' = [owned EXCEPT ![account] = Without(@, uLedgerIndex)]
        /\ walk' = NoWalk
        /\ UNCHANGED <<origin, chain, saveVars, sleCache, held, book, resolver, fees, calc>>

\* visitAccountItems (accountID, func)
Visit(i, account) ==
    LET r == visitAccountItems(World, sleCache, i, account)
    IN  /\ walk = NoWalk
        /\ walk' = [op |-> "visitAccountItems", account |-> account,
                    startAfter |-> 0, hint |-> 0, limit |-> 0,
                    fn |-> "all", calls |-> r.calls, ret |-> TRUE,
                    done |-> r.done]
        /\ sleCache' = Swept(r.cache)
        /\ UNCHANGED <<digests, maps, ledgers, origin, chain, saveVars,
                       held, book, resolver, fees, calc, owned>>

\* visitAccountItems (accountID, startAfter, hint, limit, func)
VisitAfter(i, account, startAfter, hint, limit, fn) ==
    LET r == visitAccountItems_startAfter(World, sleCache, i, account,
                                          startAfter, hint, limit, fn)
    IN  /\ walk = NoWalk
        /\ walk' = [op |-> "visitAccountItems_startAfter",
                    account |-> account, startAfter |-> startAfter,
                    hint |-> hint, limit |-> limit, fn |-> fn,
                    calls |-> r.calls, ret |-> r.ret, done |-> r.done]
        /\ sleCache' = Swept(r.cache)
        /\ UNCHANGED <<digests, maps, ledgers, origin, chain, saveVars,
                       held, book, resolver, fees, calc, owned>>

\* the caller is done with the result of its walk
WalkDone ==
    /\ walk # NoWalk
    /\ walk' = NoWalk
    /\ UNCHANGED <<digests, maps, ledgers, origin, chain, saveVars,
                   sleCache, held, book, resolver, fees, calc, owned>>

NextDir ==
    \/ \E m \in Masters, s \in StartAmounts :
           Len(ledgers) = 0 /\ Genesis(m, s)
    \/ \E i \in Live, a \in Owners, q \in OfferSequences :
           CreateOffer(i, a, q)
    \/ \E i \in Live, a \in Owners, q \in OfferSequences :
           DeleteOffer(i, a, q)
    \/ \E i \in Live, a \in Owners : Visit(i, a)
    \/ \E i \in Live, a \in Owners, e \in Cursors, h \in Hints,
          l \in Limits, fn \in Funcs : VisitAfter(i, a, e, h, l, fn)
    \/ WalkDone
    \/ CacheSweep

SpecDir == Init /\ [][NextDir]_vars

-----------------------------------------------------------------------------
(* Persistence: pendSaveValidated and saveValidatedLedger, run by several
   threads and by the job queue *)

\* HashRouter::setFlag: sets the flag, true iff it was not set before
HashRouter_setFlag(router, h) ==
    [router |-> router \cup {h}, ret |-> h \notin router]

\* pendSaveValidated that goes on whatever setFlag answers
pendSaveEnter_NoShortCircuit(router, h) ==
    [router |-> router \cup {h}, double |-> FALSE]

\* pendSaveValidated, the SF_SAVED test: double means "Double pend save"
pendSaveEnter(router, h) ==
    LET r == HashRouter_setFlag(router, h)
    IN  [router |-> r.router, double |-> ~r.ret]

\* sPendingSaves.insert (getLedgerSeq ()) that reports every insert as new
pendSaveInsert_Always(pending, seq) ==
    [pending |-> pending \cup {seq}, inserted |-> TRUE]

\* sPendingSaves.insert (getLedgerSeq ()).second
pendSaveInsert(pending, seq) ==
    [pending |-> pending \cup {seq}, inserted |-> seq \notin pending]

\* saveValidatedLedger that leaves the sequence in sPendingSaves
pendSaveErase_Keep(pending, seq) == pending

\* sPendingSaves.erase (getLedgerSeq ())
pendSaveErase(pending, seq) == pending \ {seq}

\* DELETE FROM Ledgers WHERE LedgerSeq = seq
deleteLedger(rows, seq) ==
    [rows EXCEPT !.Ledgers = {r \in @ : r.LedgerSeq # seq}]

\* BEGIN TRANSACTION ... COMMIT TRANSACTION: the rows of the sequence are
\* deleted from both tables, then each transaction of the ledger gets its
\* account rows (those of the affected accounts, here one row) and its row
saveTransactions(rows, seq, txIDs) ==
    [rows EXCEPT
        !.Transactions =
            {r \in @ : r.LedgerSeq # seq /\ r.TransID \notin txIDs}
                \cup {[TransID |-> id, LedgerSeq |-> seq] : id \in txIDs},
        !.AccountTransactions =
            {r \in @ : r.LedgerSeq # seq /\ r.TransID \notin txIDs}
                \cup {[TransID |-> id, LedgerSeq |-> seq] : id \in txIDs}]

\* INSERT OR REPLACE INTO Ledgers: LedgerHash is the key of the table
addLedger(rows, hash, seq) ==
    [rows EXCEPT !.Ledgers = {r \in @ : r.LedgerHash # hash}
                     \cup {[LedgerHash |-> hash, LedgerSeq |-> seq]}]

\* the checks saveValidatedLedger asserts before it writes
saveSane(w, i) ==
    LET L  == w.ledgers[i]
        ah == SHAMap_getHash(w, L.mAccountStateMap)
        th == SHAMap_getHash(ah.w, L.mTransactionMap)
    IN  /\ L.mAccountHash # 0
        /\ L.mAccountHash = ah.ret
        /\ L.mTransHash = th.ret

Return(t, r) == [threads EXCEPT ![t] = [IdleThread EXCEPT !.ret = r]]

\* thread t calls ledgers[i].pendSaveValidated (isSynchronous, isCurrent);
\* the two arguments are first read at the dispatch, which draws them
PendSaveCall(t, i) ==
    LET g == getHash(World, i)
        e == pendSaveEnter(hashRouter, g.ret)
    IN  /\ threads[t].pc = "idle"
        /\ Fits(g.w)
        /\ Commit(g.w)
        /\ hashRouter' = e.router
        /\ threads' = IF e.double
                      THEN Return(t, TRUE)
                      ELSE [threads EXCEPT ![t] =
                               [pc |-> "flagged", led |-> i, ret |-> TRUE]]
        /\ UNCHANGED <<origin, chain, accessVars, sPendingSaves, jobQueue, saves,
                       db>>

\* assert (isImmutable ()), then the insert into sPendingSaves under the lock
PendSaveRegister(t, asserts) ==
    LET i   == threads[t].led
        seq == ledgers[i].mLedgerSeq
    IN  /\ threads[t].pc = "flagged"
        /\ ~(asserts /\ ~ledgers[i].mImmutable)
        /\ sPendingSaves' = pendSaveInsert(sPendingSaves, seq).pending
        /\ threads' = IF ~pendSaveInsert(sPendingSaves, seq).inserted
                      THEN Return(t, TRUE)
                      ELSE [threads EXCEPT ![t].pc = "registered"]
        /\ UNCHANGED <<digests, maps, ledgers, origin, chain, accessVars, hashRouter,
                       jobQueue, saves, db>>

\* an execution of saveValidatedLedger that has written the header
Execution(i, by) ==
    [led |-> i, hash |-> ledgers[i].mHash, seq |-> ledgers[i].mLedgerSeq,
     by |-> by, status |-> "running"]

\* isSynchronous: saveValidatedLedger inline; else addJob
PendSaveDispatch(t, isSynchronous, isCurrent, asserts) ==
    LET i == threads[t].led
    IN  /\ threads[t].pc = "registered"
        /\ IF isSynchronous
           THEN /\ ~(asserts /\ ~saveSane(World, i))
                /\ saves' = saves (+) SetToBag({Execution(i, t)})
                /\ threads' = [threads EXCEPT ![t].pc = "saving"]
                /\ UNCHANGED jobQueue
           ELSE /\ jobQueue' = jobQueue (+) SetToBag(
                        {[type |-> IF isCurrent THEN "jtPUBLEDGER"
                                                ELSE "jtPUBOLDLEDGER",
                          led |-> i]})
                /\ threads' = Return(t, TRUE)
                /\ UNCHANGED saves
        /\ UNCHANGED <<digests, maps, ledgers, origin, chain, accessVars, hashRouter,
                       sPendingSaves, db>>

\* the job queue runs saveValidatedLedgerAsync of a waiting job j
RunJob(j, asserts) ==
        /\ BagIn(j, jobQueue)
        /\ ~(asserts /\ ~saveSane(World, j.led))
        /\ saves' = saves (+) SetToBag({Execution(j.led, 0)})
        /\ jobQueue' = jobQueue (-) SetToBag({j})
        /\ UNCHANGED <<digests, maps, ledgers, origin, chain, accessVars, hashRouter,
                       sPendingSaves, threads, db>>

Step(e, status) ==
    (saves (-) SetToBag({e})) (+) SetToBag({[e EXCEPT !.status = status]})

\* makeAcceptedLedger threw: failedSave, the sequence leaves sPendingSaves,
\* saveValidatedLedger returns false
SaveFail(e) ==
    /\ BagIn(e, saves)
    /\ e.status = "running"
    /\ saves' = Step(e, "failed")
    /\ sPendingSaves' = pendSaveErase(sPendingSaves, e.seq)
    /\ threads' = IF e.by = 0 THEN threads ELSE Return(e.by, FALSE)
    /\ UNCHANGED <<digests, maps, ledgers, origin, chain, accessVars,
                   hashRouter, jobQueue, db>>

\* makeAcceptedLedger returned; under the lock of the ledger database, the
\* header row of the sequence is deleted
SaveDeleteLedger(e) ==
    /\ BagIn(e, saves)
    /\ e.status = "running"
    /\ saves' = Step(e, "deleted")
    /\ db' = deleteLedger(db, e.seq)
    /\ UNCHANGED <<digests, maps, ledgers, origin, chain, accessVars,
                   hashRouter, sPendingSaves, jobQueue, threads>>

\* under the lock of the transaction database, the SQL transaction
SaveTransactions(e) ==
    /\ BagIn(e, saves)
    /\ e.status = "deleted"
    /\ saves' = Step(e, "written")
    /\ db' = saveTransactions(db, e.seq,
                  DOMAIN maps[ledgers[e.led].mTransactionMap].items)
    /\ UNCHANGED <<digests, maps, ledgers, origin, chain, accessVars,
                   hashRouter, sPendingSaves, jobQueue, threads>>

\* under the lock of the ledger database, the header row is inserted
SaveAddLedger(e) ==
    /\ BagIn(e, saves)
    /\ e.status = "written"
    /\ saves' = Step(e, "indexed")
    /\ db' = addLedger(db, getHash(World, e.led).ret,
                       ledgers[e.led].mLedgerSeq)
    /\ UNCHANGED <<digests, maps, ledgers, origin, chain, accessVars,
                   hashRouter, sPendingSaves, jobQueue, threads>>

\* the sequence leaves sPendingSaves, saveValidatedLedger returns true
SaveErase(e) ==
    /\ BagIn(e, saves)
    /\ e.status = "indexed"
    /\ saves' = Step(e, "saved")
    /\ sPendingSaves' = pendSaveErase(sPendingSaves, e.seq)
    /\ threads' = IF e.by = 0 THEN threads ELSE Return(e.by, TRUE)
    /\ UNCHANGED <<digests, maps, ledgers, origin, chain, accessVars,
                   hashRouter, jobQueue, db>>

\* start amounts of genesis ledgers: two ledgers of one sequence
SaveAmounts == StartAmounts \cup {200000}

NextSave ==
    \/ \E a \in Masters, c \in SaveAmounts : Genesis(a, c)
    \/ \E i \in Live, id \in TxIDs, tx \in Txns :
           ledgers[i].mHash = 0 /\ AddTransaction(i, id, tx)
    \/ \E i \in Live, t \in NetTimes : Successor(i, t)
    \/ \E i \in Live : SetImmutable(i)
    \/ \E t \in Threads, i \in Live : PendSaveCall(t, i)
    \/ \E t \in Threads, a \in BOOLEAN : PendSaveRegister(t, a)
    \/ \E t \in Threads, s \in BOOLEAN, c \in BOOLEAN, a \in BOOLEAN :
          PendSaveDispatch(t, s, c, a)
    \/ \E j \in BagToSet(jobQueue), a \in BOOLEAN : RunJob(j, a)
    \/ \E e \in BagToSet(saves) : SaveFail(e)
    \/ \E e \in BagToSet(saves) : SaveDeleteLedger(e)
    \/ \E e \in BagToSet(saves) : SaveTransactions(e)
    \/ \E e \in BagToSet(saves) : SaveAddLedger(e)
    \/ \E e \in BagToSet(saves) : SaveErase(e)

SpecSave == Init /\ [][NextSave]_vars

\* a step of an execution of saveValidatedLedger
SaveStep(e) ==
    \/ SaveFail(e)
    \/ SaveDeleteLedger(e)
    \/ SaveTransactions(e)
    \/ SaveAddLedger(e)
    \/ SaveErase(e)

\* a thread inside pendSaveValidated or saveValidatedLedger goes on, and the
\* job queue runs every job it holds
SpecSaveLive ==
    /\ SpecSave
    /\ \A t \in Threads :
           WF_vars(\E s \in BOOLEAN, c \in BOOLEAN, a \in BOOLEAN :
                      PendSaveDispatch(t, s, c, a))
    /\ \A i \in 1..MaxLedgers :
           WF_vars(\E j \in BagToSet(jobQueue), a \in BOOLEAN :
                      j.led = i /\ RunJob(j, a))
    /\ \A i \in 1..MaxLedgers :
           WF_vars(\E e \in BagToSet(saves) : e.led = i /\ SaveStep(e))

-----------------------------------------------------------------------------
(* The resolver: threads call start, stop, stop_async and resolve; the
   threads of the io_service run the handlers of the strand one at a time
   and the completions of the resolutions, and destroy each handler, and
   with it its CompletionCounter, once it has run *)

HostNames == {<<"a", ":", "1">>, <<" ">>}

NameLists == {<<n>> : n \in HostNames} \cup {<<<<" ">>, <<"a", ":", "1">>>>}

HandlerTypes == {"h"}

Codes == {"ok", "error"}

Becomes(r) ==
    /\ resolver' = r
    /\ UNCHANGED <<digests, maps, ledgers, origin, chain, saveVars,
                   sleCache, held, book, calc, dirVars, fees>>

At(t, pc) == resolver.callers[t].pc = pc

\* start () up to the exchange of m_stopped
Start(t) ==
    /\ At(t, "idle")
    /\ resolver.m_stopped = TRUE
    /\ resolver.m_stop_called = FALSE
    /\ Becomes([resolver EXCEPT !.m_stopped = FALSE,
                                !.callers[t].pc = "reset"])

\* start (): m_stop_complete.reset ()
StartReset(t) ==
    /\ At(t, "reset")
    /\ Becomes([resolver EXCEPT !.m_stop_complete = FALSE,
                                !.callers[t].pc = "addReference"])

\* start (): addReference (), and the return
StartAddReference(t) ==
    /\ At(t, "addReference")
    /\ Becomes([addReference(resolver) EXCEPT !.callers[t].pc = "idle",
                                              !.started = TRUE])

StopAsync(t) ==
    /\ At(t, "idle")
    /\ Becomes(stop_async(resolver))

\* stop () up to the wait
Stop(t) ==
    /\ At(t, "idle")
    /\ Becomes([stop_async(resolver) EXCEPT
                   !.callers[t] = [pc |-> "wait",
                                   started |-> resolver.started,
                                   returned |-> FALSE]])

\* stop (): m_stop_complete.wait () finds the event signalled, and the return
StopWait(t) ==
    /\ At(t, "wait")
    /\ resolver.m_stop_complete = TRUE
    /\ Becomes([resolver EXCEPT !.callers[t].pc = "idle",
                                !.callers[t].returned = TRUE])

Resolve(t, names, handler) ==
    /\ At(t, "idle")
    /\ resolver.m_stop_called = FALSE
    /\ resolver.m_stopped = TRUE
    /\ names # <<>>
    /\ resolver.resolves < MaxResolves
    /\ Becomes(post([resolver EXCEPT !.resolves = @ + 1],
                    Bound("do_resolve", names, handler)))

\* the strand without the handler h, which is about to run
Taken(h) == [resolver EXCEPT !.strand = @ (-) SetToBag({h})]

RunDoStop(h) ==
    /\ BagIn(h, resolver.strand)
    /\ h.fn = "do_stop"
    /\ Becomes(removeReference(do_stop(Taken(h))))

RunDoResolve(h) ==
    /\ BagIn(h, resolver.strand)
    /\ h.fn = "do_resolve"
    /\ Becomes(removeReference(do_resolve(Taken(h), h.names, h.handler)))

RunDoWork(h) ==
    /\ BagIn(h, resolver.strand)
    /\ h.fn = "do_work"
    /\ Becomes(removeReference(do_work(Taken(h))))

\* a resolution in flight completes, with a result or with an error
Complete(q, ec) ==
    /\ BagIn(q, resolver.resolving)
    /\ q.ec = "pending"
    /\ Becomes([resolver EXCEPT
                   !.resolving = (@ (-) SetToBag({q}))
                                  (+) SetToBag({[q EXCEPT !.ec = ec]})])

RunDoFinish(q) ==
    /\ BagIn(q, resolver.resolving)
    /\ q.ec # "pending"
    /\ Becomes(removeReference(
           do_finish([resolver EXCEPT !.resolving = @ (-) SetToBag({q})],
                     q)))

\* a step of an io_service thread
Run ==
    \/ \E h \in BagToSet(resolver.strand) :
           RunDoStop(h) \/ RunDoResolve(h) \/ RunDoWork(h)
    \/ \E q \in BagToSet(resolver.resolving) : RunDoFinish(q)

NextResolver ==
    \/ \E t \in Callers : Start(t)
    \/ \E t \in Callers : StartReset(t)
    \/ \E t \in Callers : StartAddReference(t)
    \/ \E t \in Callers : StopAsync(t)
    \/ \E t \in Callers : Stop(t)
    \/ \E t \in Callers : StopWait(t)
    \/ \E t \in Callers, names \in NameLists, handler \in HandlerTypes :
           Resolve(t, names, handler)
    \/ \E h \in BagToSet(resolver.strand) : RunDoStop(h)
    \/ \E h \in BagToSet(resolver.strand) : RunDoResolve(h)
    \/ \E h \in BagToSet(resolver.strand) : RunDoWork(h)
    \/ \E q \in BagToSet(resolver.resolving), ec \in Codes : Complete(q, ec)
    \/ \E q \in BagToSet(resolver.resolving) : RunDoFinish(q)

SpecResolver == Init /\ [][NextResolver]_vars

\* every thread inside start or stop goes on, the io_service runs every
\* handler it holds, and every resolution in flight completes
SpecResolverLive ==
    /\ SpecResolver
    /\ \A t \in Callers :
           WF_vars(StartReset(t) \/ StartAddReference(t) \/ StopWait(t))
    /\ WF_vars(Run)
    /\ WF_vars(\E q \in BagToSet(resolver.resolving), ec \in Codes :
                  Complete(q, ec))

-----------------------------------------------------------------------------
(* Neighbours of a key in the state map *)

\* the keys asked for: the account roots, in the map or not, the zero key
\* and a key above all of them
IndexAccounts == 1..3

IndexKeys == {getAccountRootIndex(a) : a \in IndexAccounts}
                 \cup {0, getLedgerHashIndex}

PrevLedgerIndex(i, uHash) ==
    /\ calc' = [op   |-> "getPrevLedgerIndex",
                args |-> <<i, uHash>>,
                ret  |-> getPrevLedgerIndex(World, i, uHash)]
    /\ UNCHANGED <<digests, maps, ledgers, origin, chain, saveVars,
                   sleCache, held, book, dirVars, resolver, fees>>

PrevLedgerIndexFrom(i, uHash, uBegin) ==
    /\ calc' = [op   |-> "getPrevLedgerIndex_begin",
                args |-> <<i, uHash, uBegin>>,
                ret  |-> getPrevLedgerIndex_begin(World, i, uHash, uBegin)]
    /\ UNCHANGED <<digests, maps, ledgers, origin, chain, saveVars,
                   sleCache, held, book, dirVars, resolver, fees>>

\* the entries change, so the last result is dropped
IndexWrite(i, account, balance) ==
    LET k == getAccountRootIndex(account)
        r == writeBack(World, i, lepCREATE, AccountRootSLE(k, balance, 1))
    IN  /\ Fits(r.w)
        /\ Commit(r.w)
        /\ calc' = NoCalc
        /\ UNCHANGED <<origin, chain, saveVars, sleCache, held, book,
                       dirVars, resolver, fees>>

NextIndex ==
    \/ \E a \in Masters, c \in StartAmounts :
           Len(ledgers) = 0 /\ calc = NoCalc /\ Genesis(a, c)
    \/ \E i \in Live, a \in IndexAccounts, b \in Balances :
           IndexWrite(i, a, b)
    \/ \E i \in Live, h \in IndexKeys : PrevLedgerIndex(i, h)
    \/ \E i \in Live, h \in IndexKeys, b \in IndexKeys :
           PrevLedgerIndexFrom(i, h, b)

SpecIndex == Init /\ [][NextIndex]_vars

-----------------------------------------------------------------------------
(* Fee accessors called concurrently on one ledger: each statement of
   updateFees outside the lock, and each assignment under it, is a step *)

\* fee settings: every field, the base fee alone, no field
FeeEntries == {<<15, <<20, 5, 100, 25>>>>, <<1, <<20, 0, 0, 0>>>>,
               <<0, <<0, 0, 0, 0>>>>}

Increments == {2}

FeesBecome(f) ==
    /\ fees' = f
    /\ UNCHANGED <<origin, chain, saveVars, sleCache, held, book, calc,
                   dirVars, resolver>>

\* the fee settings entry is created or replaced (a fee change is applied)
SetFeeSettings(i, entry) ==
    LET sle == FeeSettingsSLE(getLedgerFeeIndex, entry[1], entry[2])
        r   == writeBack(World, i, lepCREATE, sle)
    IN  /\ Fits(r.w)
        /\ Commit(r.w)
        /\ r.w # World
        /\ UNCHANGED <<origin, chain, saveVars, accessVars>>

\* a fee accessor is called and enters updateFees
FeeCall(t, i, accessor, arg) ==
    /\ fees.at[t].pc = "idle"
    /\ fees.calls < MaxFeeCalls
    /\ FeesBecome([fees EXCEPT
           !.calls = @ + 1,
           !.at[t] = [IdleFees EXCEPT !.pc = "check", !.led = i,
                                      !.accessor = accessor, !.arg = arg,
                                      !.call = fees.calls + 1]])
    /\ UNCHANGED <<digests, maps, ledgers>>

\* if (mBaseFee) return, read without the lock
FeeCheck(t) ==
    /\ fees.at[t].pc = "check"
    /\ FeesBecome([fees EXCEPT !.at[t].pc =
           IF ledgers[fees.at[t].led].mBaseFee # 0 THEN "return" ELSE "load"])
    /\ UNCHANGED <<digests, maps, ledgers>>

\* the defaults and the fee settings are read into the locals
FeeLoad(t) ==
    /\ fees.at[t].pc = "load"
    /\ FeesBecome([fees EXCEPT
           !.at[t].pc = "lock",
           !.at[t].locals = updateFees_locals(World, fees.at[t].led)])
    /\ UNCHANGED <<digests, maps, ledgers>>

FeeLock(t) ==
    /\ fees.at[t].pc = "lock"
    /\ fees.lock = 0
    /\ FeesBecome([fees EXCEPT !.lock = t, !.at[t].pc = "test"])
    /\ UNCHANGED <<digests, maps, ledgers>>

\* if (mBaseFee == 0) under the lock
FeeTest(t) ==
    /\ fees.at[t].pc = "test"
    /\ FeesBecome(IF ledgers[fees.at[t].led].mBaseFee = 0
                  THEN [fees EXCEPT !.at[t].pc = "assign", !.at[t].k = 1]
                  ELSE [fees EXCEPT !.at[t].pc = "return", !.lock = 0])
    /\ UNCHANGED <<digests, maps, ledgers>>

\* one of the four assignments; the lock is released after the last
FeeAssign(t) ==
    LET c == fees.at[t]
        L == updateFees_assign(ledgers[c.led], c.locals, c.k)
        written == [led |-> c.led, call |-> c.call, k |-> c.k,
                    locals |-> c.locals]
    IN  /\ c.pc = "assign"
        /\ ledgers' = [ledgers EXCEPT ![c.led] = L]
        /\ FeesBecome(IF c.k < 4
                      THEN [fees EXCEPT !.at[t].k = c.k + 1,
                                        !.log = Append(@, written)]
                      ELSE [fees EXCEPT !.at[t].pc = "return",
                                        !.lock = 0,
                                        !.log = Append(@, written)])
        /\ UNCHANGED <<digests, maps>>

\* updateFees has returned: the accessor reads the fields and returns
FeeReturn(t) ==
    LET c == fees.at[t]
    IN  /\ c.pc = "return"
        /\ FeesBecome([fees EXCEPT
               !.at[t].pc = "idle",
               !.at[t].ret = accessorValue(ledgers[c.led], c.accessor, c.arg)])
        /\ UNCHANGED <<digests, maps, ledgers>>

NextFees ==
    \/ \E m \in Masters, a \in StartAmounts :
           Len(ledgers) = 0 /\ Genesis(m, a)
    \/ \E i \in Live, e \in FeeEntries : SetFeeSettings(i, e)
    \/ \E t \in Threads, i \in Live, a \in Accessors, n \in Increments :
           FeeCall(t, i, a, n)
    \/ \E t \in Threads : FeeCheck(t)
    \/ \E t \in Threads : FeeLoad(t)
    \/ \E t \in Threads : FeeLock(t)
    \/ \E t \in Threads : FeeTest(t)
    \/ \E t \in Threads : FeeAssign(t)
    \/ \E t \in Threads : FeeReturn(t)

SpecFees == Init /\ [][NextFees]_vars

-----------------------------------------------------------------------------
(* A chain of ledgers grown from the genesis ledger, or from an empty ledger
   of a later sequence: each successor runs updateSkipList once, the parent
   is released when its successor is built *)

Tip == ledgers[1]

LoadedSeqs == {255}

\* the sequence of the chain's first ledger
ChainFirst == Tip.mLedgerSeq - Len(chain.hashes)

\* the hash of the chain's ledger of sequence s
ChainHash(s) == chain.hashes[s - ChainFirst + 1]

IsRoot(kind) == kind \in {"genesis", "loaded"}

\* the chain starts at an empty ledger of sequence ledgerSeq
ChainLoad(ledgerSeq, closeTime) ==
    LET w == LedgerFromJSON(World, ledgerSeq, closeTime)
    IN  /\ Len(ledgers) = 0
        /\ Commit(w)
        /\ origin' = <<[kind |-> "loaded", src |-> 0]>>
        /\ UNCHANGED <<chain, saveVars, accessVars>>

\* the successor of the tip is built and the tip released
ChainSuccessor(now) ==
    /\ Len(ledgers) = 1
    /\ IsRoot(origin[1].kind) \/ chain.updated
    /\ Len(chain.hashes) < MaxChainLen
    /\ \E w \in {LedgerSuccessor(World, 1, now)} :
        LET N == w.ledgers[2]
        IN  /\ digests' = w.digests
            /\ maps' = <<w.maps[N.mTransactionMap], w.maps[N.mAccountStateMap]>>
            /\ ledgers' = <<[N EXCEPT !.mTransactionMap = 1,
                                      !.mAccountStateMap = 2]>>
            /\ chain' = [root    |-> IF IsRoot(origin[1].kind)
                                     THEN origin[1].kind ELSE chain.root,
                         hashes  |-> Append(chain.hashes, getHash(w, 1).ret),
                         updated |-> FALSE,
                         query   |-> NoQuery]
    /\ origin' = <<[kind |-> "successor", src |-> 0]>>
    /\ UNCHANGED <<saveVars, accessVars>>

ChainUpdateSkipList(asserts) ==
    /\ Len(ledgers) = 1
    /\ origin[1].kind = "successor"
    /\ ~chain.updated
    /\ \E r \in {updateSkipList(World, 1)} :
        /\ ~(asserts /\ r.asserted)
        /\ Commit(r.w)
        /\ chain' = [chain EXCEPT !.updated = TRUE]
        /\ UNCHANGED <<origin, saveVars, accessVars>>

\* the targets asked of a ledger of sequence seq
Targets(seq) ==
    {t \in {seq + 1, seq, seq - 1, seq - 2, seq - SkipListSize,
            seq - SkipListSize - 1, SkipListSize} : t >= 0}

ChainGetLedgerHash(t) ==
    /\ Len(ledgers) = 1
    /\ IsRoot(origin[1].kind) \/ chain.updated
    /\ \E r \in {getLedgerHash(World, 1, t)} :
        /\ Commit(r.w)
        /\ chain' = [chain EXCEPT !.query = [made |-> TRUE, t |-> t,
                                             ret |-> r.ret,
                                             asserted |-> r.asserted]]
    /\ UNCHANGED <<origin, saveVars, accessVars>>

NextChain ==
    \/ \E a \in Masters, c \in StartAmounts : Len(ledgers) = 0 /\ Genesis(a, c)
    \/ \E n \in LoadedSeqs, c \in CloseTimes : ChainLoad(n, c)
    \/ \E t \in NetTimes : ChainSuccessor(t)
    \/ \E a \in BOOLEAN : ChainUpdateSkipList(a)
    \/ /\ Len(ledgers) = 1
       /\ \E t \in Targets(Tip.mLedgerSeq) : ChainGetLedgerHash(t)

SpecChain == Init /\ [][NextChain]_vars

-----------------------------------------------------------------------------
(* Properties of the ledger operations *)

WorldNext == [digests |-> digests', maps |-> maps', ledgers |-> ledgers']

\* assertSane that leaves out the comparison of the transaction root
assertSane_NoTransRoot(w, i) ==
    LET L  == w.ledgers[i]
        ah == SHAMap_getHash(w, L.mAccountStateMap)
    IN  /\ L.mHash # 0
        /\ L.mAccountHash # 0
        /\ L.mAccountStateMap # 0
        /\ L.mTransactionMap # 0
        /\ L.mAccountHash = ah.ret

assertSane(w, i) ==
    LET L  == w.ledgers[i]
        ah == SHAMap_getHash(w, L.mAccountStateMap)
        th == SHAMap_getHash(ah.w, L.mTransactionMap)
    IN  /\ L.mHash # 0
        /\ L.mAccountHash # 0
        /\ L.mAccountStateMap # 0
        /\ L.mTransactionMap # 0
        /\ L.mAccountHash = ah.ret
        /\ L.mTransHash = th.ret

\* the contents, and so the root hashes, of both maps of ledger i
MapBytes(w, i) ==
    <<SHAMap_bytes(w.maps[w.ledgers[i].mTransactionMap]),
      SHAMap_bytes(w.maps[w.ledgers[i].mAccountStateMap])>>

\* two maps report the same root hash
SameRoot(w, m1, m2) ==
    LET h1 == SHAMap_getHash(w, m1)
    IN  h1.ret = SHAMap_getHash(h1.w, m2).ret

Derived(k) == k \in {"snapshot", "successor"}

\* C1: in every reachable state of every ledger, the hash getHash() reports
\* is sha512Half(ledgerMaster prefix, header body), and the header's
\* transaction root and account-state root are the current root hashes of
\* the transaction map and of the state map.
C1_HashCommitsToHeader ==
    \A i \in Live :
        LET r  == getHash(World, i)
            L  == r.w.ledgers[i]
            th == SHAMap_getHash(r.w, L.mTransactionMap)
            ah == SHAMap_getHash(th.w, L.mAccountStateMap)
        IN  /\ r.ret = Digest(r.w.digests, <<HashPrefix_ledgerMaster>> \o addRaw(L))
            /\ L.mTransHash = th.ret
            /\ L.mAccountHash = ah.ret

\* C2: a snapshot or a successor reports, right after its creation, the same
\* state-map root hash as the ledger it was built from, and a write through
\* one ledger (writeBack, addSLE, addTransaction) leaves the contents and
\* root hashes of the maps of every other ledger unchanged.
C2_SnapshotIsolation ==
    [][/\ \A n \in (1..Len(ledgers')) \ Live :
               Derived(origin'[n].kind) =>
                   SameRoot(WorldNext, ledgers'[n].mAccountStateMap,
                            ledgers'[origin'[n].src].mAccountStateMap)
       /\ \A i \in Live :
               (\/ \E q \in {lepNONE, lepCREATE}, a \in Accounts, b \in Balances :
                       WriteBack(i, q, a, b)
                \/ \E a \in Accounts, b \in Balances : AddSLE(i, a, b)
                \/ \E t \in TxIDs, x \in Txns : AddTransaction(i, t, x))
               => \A j \in Live \ {i} : MapBytes(WorldNext, j) = MapBytes(World, j)
      ]_vars

\* a ledger was derived from another and one of the two was written since
C2_Witness ==
    \E n \in Live :
        /\ Derived(origin[n].kind)
        /\ SHAMap_bytes(maps[ledgers[n].mAccountStateMap])
             # SHAMap_bytes(maps[ledgers[origin[n].src].mAccountStateMap])

\* C3: once a successor was built from a parent P, P is immutable, no step
\* changes P's header or maps, and the successor's parentHash is what
\* P.getHash() reports.
C3_ParentFrozen ==
    [][\A n \in 1..Len(ledgers') :
           origin'[n].kind = "successor" =>
               LET p == origin'[n].src
               IN  /\ ledgers'[p].mImmutable
                   /\ ledgers'[n].mParentHash = getHash(WorldNext, p).ret
                   /\ n \in Live =>
                          /\ addRaw(ledgers'[p]) = addRaw(ledgers[p])
                          /\ MapBytes(WorldNext, p) = MapBytes(World, p)
      ]_vars

\* C4: the genesis constructor yields sequence 1, a zero parent hash, an
\* empty transaction map and a state map holding exactly the master's
\* AccountRoot with Balance = startAmount and Sequence = 1; after
\* updateHash() on it assertSane() holds.
C4_Genesis ==
    [][\A a \in Masters, c \in StartAmounts :
           Genesis(a, c) =>
               LET n  == Len(ledgers')
                   L  == ledgers'[n]
                   k  == getAccountRootIndex(a)
                   th == SHAMap_getHash(WorldNext, L.mTransactionMap)
                   st == maps'[L.mAccountStateMap].items
               IN  /\ L.mLedgerSeq = 1
                   /\ L.mParentHash = 0
                   /\ th.ret = 0
                   /\ DOMAIN st = {k}
                   /\ SLE_parse(st[k], k) = AccountRootSLE(k, c, 1)
                   /\ assertSane(updateHash(WorldNext, n), n)
      ]_vars

\* a genesis ledger on which updateHash() ran and which is sane
C4_Witness ==
    \E i \in Live :
        /\ origin[i].kind = "genesis"
        /\ ledgers[i].mValidHash
        /\ assertSane(World, i)

\* the executions of saveValidatedLedger triggered for hash h: those
\* started, those queued and those a thread is about to start
Triggered(h) ==
    BagCardinality([e \in {x \in BagToSet(saves) : x.hash = h} |-> saves[e]])
    + BagCardinality([j \in {k \in BagToSet(jobQueue) :
                                 ledgers[k.led].mHash = h} |-> jobQueue[j]])
    + Cardinality({t \in Threads : /\ threads[t].pc = "registered"
                                   /\ ledgers[threads[t].led].mHash = h})

\* the hashes Triggered can count
SaveHashes ==
    {x.hash : x \in BagToSet(saves)} \cup {ledgers[i].mHash : i \in Live}

\* C5: whatever the interleaving of pendSaveValidated calls, at most one
\* execution of saveValidatedLedger is triggered per ledger hash, and a call
\* that finds the hash already flagged returns true without registering in
\* PendingSaves and without queueing a job.
C5_SaveOnce ==
    [][/\ \A h \in SaveHashes' : Triggered(h)' <= 1
       /\ \A t \in Threads, i \in Live :
              (/\ threads[t].pc = "idle"
               /\ getHash(World, i).ret \in hashRouter
               /\ PendSaveCall(t, i))
              => /\ threads'[t].pc = "idle"
                 /\ threads'[t].ret = TRUE
                 /\ UNCHANGED <<sPendingSaves, jobQueue, saves>>
      ]_vars

\* a save of a hash ran to its end and a later call with that hash returned
\* at once: the hash is flagged, nothing is pending, queued or in flight
C5_Witness ==
    \E e \in BagToSet(saves) :
        /\ e.status = "saved"
        /\ e.hash \in hashRouter
        /\ sPendingSaves = {}
        /\ jobQueue = EmptyBag
        /\ \A t \in Threads : threads[t].pc = "idle"
        /\ \E f \in BagToSet(saves) : f.status = "failed"

-----------------------------------------------------------------------------
(* Properties of the skip lists, over the chain *)

Min(a, b) == IF a < b THEN a ELSE b

\* the hashes of ledger i's sliding list, none when the entry is absent
Sliding(w, i) ==
    IF hasSLE(w, i, getLedgerHashIndex)
    THEN getSLE(w, i, getLedgerHashIndex).Hashes ELSE <<>>

\* the tip is a successor that ran updateSkipList
TipUpdated == Len(ledgers) = 1 /\ chain.updated

\* C6: when updateSkipList runs on the ledger of sequence n, the sliding
\* list becomes the old list, without its oldest hash if it held 256, plus
\* the parent hash: it holds at most 256 hashes, ends with the parent hash,
\* is stamped LastLedgerSequence = n-1, and its entries are the hashes of
\* the chain's ledgers n-len .. n-1 in ascending order.
C6_SlidingList ==
    [][(~chain.updated /\ chain'.updated) =>
          LET n   == ledgers'[1].mLedgerSeq
              old == Sliding(World, 1)
              new == Sliding(WorldNext, 1)
          IN  /\ new = (IF Len(old) = 256 THEN Tail(old) ELSE old)
                          \o <<ledgers'[1].mParentHash>>
              /\ Len(new) <= 256
              /\ new[Len(new)] = ledgers'[1].mParentHash
              /\ getSLE(WorldNext, 1, getLedgerHashIndex).LastLedgerSequence = n - 1
              /\ \A j \in 1..Len(new) :
                     new[j] = chain'.hashes[(n - Len(new) + j - 1)
                                               - (n - Len(chain'.hashes)) + 1]
      ]_vars

\* the sliding list is full and hashes were evicted from it
C6_Witness ==
    /\ TipUpdated
    /\ Tip.mLedgerSeq > 258
    /\ Len(Sliding(World, 1)) = 256
    /\ Sliding(World, 1)[1] = ChainHash(Tip.mLedgerSeq - 256)

\* C7 as stated: in a chain grown from the genesis ledger, after
\* updateSkipList at the ledger of sequence n the sliding list has length
\* min(n, 256).
C7_LengthMinN ==
    (TipUpdated /\ chain.root = "genesis") =>
        Len(Sliding(World, 1)) = Min(Tip.mLedgerSeq, 256)

\* C7: the genesis ledger having sequence 1, in a chain grown from it the
\* sliding list has length min(n - 1, 256) after updateSkipList at the
\* ledger of sequence n.
C7_LengthMinPrev ==
    (TipUpdated /\ chain.root = "genesis") =>
        Len(Sliding(World, 1)) = Min(Tip.mLedgerSeq - 1, 256)

\* the ledger of sequence 100 ran updateSkipList and holds 99 hashes
C7_Witness ==
    /\ TipUpdated
    /\ chain.root = "genesis"
    /\ Tip.mLedgerSeq = 100
    /\ Len(Sliding(World, 1)) = 99

\* C8: for every ledger L of the chain and every target t with
\* 2 <= L.seq - t <= 256 that is not below the chain's first sequence,
\* getLedgerHash(t) returns the hash of the chain's ledger of sequence t,
\* which is the entry size - (L.seq - t) of the sliding list.
C8_NearLookup ==
    TipUpdated =>
        \A t \in ChainFirst..(Tip.mLedgerSeq - 2) :
            Tip.mLedgerSeq - t <= 256 =>
                LET r   == getLedgerHash(World, 1, t)
                    vec == Sliding(World, 1)
                IN  /\ r.ret = ChainHash(t)
                    /\ r.ret = vec[Len(vec) - (Tip.mLedgerSeq - t) + 1]
                    /\ ~r.asserted

\* getLedgerHash was asked for the sequence 256 below the tip and returned
\* that ledger's hash
C8_Witness ==
    /\ TipUpdated
    /\ chain.query.made
    /\ chain.query.t = Tip.mLedgerSeq - 256
    /\ chain.query.t >= ChainFirst
    /\ ~chain.query.asserted
    /\ chain.query.ret # 0
    /\ chain.query.ret = ChainHash(chain.query.t)

\* the entry of the paged list that skiplistFor(t) names
Paged(w, i, t) ==
    IF hasSLE(w, i, getLedgerHashIndexFor(t))
    THEN getSLE(w, i, getLedgerHashIndexFor(t))
    ELSE LedgerHashesSLE(getLedgerHashIndexFor(t), <<>>, 0)

\* C9: for every ledger L of the chain and every non-zero multiple t of 256
\* with L.seq - t > 256, getLedgerHash(t) returns the hash of ledger t, the
\* entry size - ((lastSeq - t)/256) - 1 of the paged list; and a sequence
\* held both in the sliding list and in the paged list has the same hash in
\* both.
C9_PagedLookup ==
    Len(ledgers) = 1 =>
        LET n   == Tip.mLedgerSeq
            pg  == Paged(World, 1, n)
            vec == Sliding(World, 1)
            sl  == getSLE(World, 1, getLedgerHashIndex)
        IN  /\ chain.updated =>
                \A t \in ChainFirst..n :
                    (t % 256 = 0 /\ n - t > 256) =>
                        LET r == getLedgerHash(World, 1, t)
                        IN  /\ r.ret = ChainHash(t)
                            /\ r.ret = pg.Hashes[Len(pg.Hashes)
                                   - ((pg.LastLedgerSequence - t) \div 256)]
                            /\ ~r.asserted
            /\ \A j \in 1..Len(pg.Hashes) :
                   LET s == pg.LastLedgerSequence - 256 * (Len(pg.Hashes) - j)
                       f == sl.LastLedgerSequence - Len(vec) + 1
                   IN  (vec # <<>> /\ f <= s /\ s <= sl.LastLedgerSequence)
                           => vec[s - f + 1] = pg.Hashes[j]

\* getLedgerHash was asked for sequence 256 by a ledger more than 256 ahead
\* and returned that ledger's hash
C9_Witness ==
    /\ TipUpdated
    /\ chain.query.made
    /\ chain.query.t = 256
    /\ Tip.mLedgerSeq - 256 > 256
    /\ ~chain.query.asserted
    /\ chain.query.ret # 0
    /\ chain.query.ret = ChainHash(256)

\* C10: getLedgerHash(t) returns the zero hash when t is above the ledger's
\* sequence and when the sequence - t > 256 with t no multiple of 256; it
\* returns the ledger's own hash for t = sequence and the parent hash for
\* t = sequence - 1; in these cases the state map is left as it was.
C10_EasyCases ==
    Len(ledgers) = 1 =>
        LET n == Tip.mLedgerSeq
        IN  \A t \in 0..(n + 2) :
                LET r == getLedgerHash(World, 1, t)
                IN  /\ t > n => r.ret = 0
                    /\ (n - t > 256 /\ t % 256 # 0) => r.ret = 0
                    /\ t = n => r.ret = getHash(World, 1).ret /\ r.ret # 0
                    /\ t = n - 1 => r.ret = Tip.mParentHash
                    /\ (t >= n - 1 \/ (n - t > 256 /\ t % 256 # 0)) =>
                           /\ r.w.ledgers[1].mAccountStateMap = Tip.mAccountStateMap
                           /\ r.w.maps[Tip.mAccountStateMap]
                                 = maps[Tip.mAccountStateMap]

\* getLedgerHash was asked for a sequence more than 256 back that is no
\* multiple of 256 and returned the zero hash
C10_Witness ==
    /\ Len(ledgers) = 1
    /\ chain.query.made
    /\ Tip.mLedgerSeq - chain.query.t > 256
    /\ chain.query.t % 256 # 0
    /\ chain.query.ret = 0

-----------------------------------------------------------------------------
(* Properties of the lifecycle *)

\* C11: the lifecycle only advances Open -> Closed -> Accepted -> Validated:
\* the closed, accepted, validated and immutable flags of a ledger never
\* return to false once set, a ledger is never Accepted without being
\* Closed and never Validated without being Accepted.
C11_Lifecycle ==
    [][/\ \A i \in Live :
              /\ ledgers[i].mClosed => ledgers'[i].mClosed
              /\ ledgers[i].mAccepted => ledgers'[i].mAccepted
              /\ ledgers[i].mValidated => ledgers'[i].mValidated
              /\ ledgers[i].mImmutable => ledgers'[i].mImmutable
       /\ \A i \in 1..Len(ledgers') :
              /\ ledgers'[i].mAccepted => ledgers'[i].mClosed
              /\ ledgers'[i].mValidated => ledgers'[i].mAccepted
      ]_vars

\* C12: in every reachable state a ledger that is Closed is also Immutable,
\* and every snapshot created with makeMutable = false is Immutable.
C12_ClosedImmutable ==
    [][/\ \A i \in 1..Len(ledgers') :
              ledgers'[i].mClosed => ledgers'[i].mImmutable
       /\ \A i \in Live :
              Snapshot(i, FALSE) => ledgers'[Len(ledgers')].mImmutable
      ]_vars

\* C13: in every reachable state of every ledger whose Accepted flag is set,
\* the ledger and both of its maps are immutable and, if NoConsensusTime is
\* clear, the close time equals its rounding to the close resolution (it is
\* 0 or a multiple of the resolution); acceptance with correctCloseTime =
\* false keeps the close time unrounded and sets NoConsensusTime.
C13_Accepted ==
    [][/\ \A i \in 1..Len(ledgers') :
              LET L == ledgers'[i]
              IN  L.mAccepted =>
                     /\ L.mImmutable
                     /\ maps'[L.mTransactionMap].mState = "Immutable"
                     /\ maps'[L.mAccountStateMap].mState = "Immutable"
                     /\ getCloseAgree(L) =>
                            /\ L.mCloseTime
                                 = Rounded(L.mCloseTime, L.mCloseResolution)
                            /\ L.mCloseTime % L.mCloseResolution = 0
       /\ \A i \in Live, ct \in CloseTimes, r \in Resolutions, a \in BOOLEAN :
              SetAcceptedAt(i, ct, r, FALSE, a) =>
                  /\ ledgers'[i].mCloseTime = ct
                  /\ ~getCloseAgree(ledgers'[i])
      ]_vars

\* what a sealed ledger must keep: the header, the hash and both maps
Sealed(w, i) == <<addRaw(w.ledgers[i]), w.ledgers[i].mHash, MapBytes(w, i)>>

\* C14: once setImmutable() has run on a ledger, addTransaction, writeBack,
\* addSLE, setCloseTime, setTotalCoins, destroyCoins and setAccepted() leave
\* its header fields, the contents and root hashes of both maps and its hash
\* as they were when it was sealed.
C14_SealedFrozen ==
    [][\A i \in Live :
          (/\ ledgers[i].mImmutable
           /\ maps[ledgers[i].mTransactionMap].mState = "Immutable"
           /\ maps[ledgers[i].mAccountStateMap].mState = "Immutable"
           /\ \/ \E t \in TxIDs, x \in Txns : AddTransaction(i, t, x)
              \/ \E p \in {lepNONE, lepCREATE}, a \in Accounts, b \in Balances :
                    WriteBack(i, p, a, b)
              \/ \E a \in Accounts, b \in Balances : AddSLE(i, a, b)
              \/ \E ct \in CloseTimes, a \in BOOLEAN : SetCloseTime(i, ct, a)
              \/ \E c \in CoinValues : SetTotalCoins(i, c)
              \/ \E f \in Fees : DestroyCoins(i, f)
              \/ SetAccepted(i))
          => Sealed(WorldNext, i) = Sealed(World, i)
      ]_vars

-----------------------------------------------------------------------------
(* Properties of the typed accessors *)

\* the items of ledger i's state map
StateItems(w, i) == w.maps[w.ledgers[i].mAccountStateMap].items

\* the state map of ledger i accepts writes
Writable(w, i) == w.maps[w.ledgers[i].mAccountStateMap].mState # "Immutable"

C16_GetASNode ==
    [][\A i \in Live, p \in ParmsIn, a \in Written, t \in EntryTypes :
          GetASNode(i, p, a, t) =>
              LET k       == getAccountRootIndex(a)
                  present == hasSLE(World, i, k)
                  stored  == getSLE(World, i, k)
                  create  == HasFlag(p, lepCREATE)
                  sle     == held'.sle
                  out     == held'.parms
              IN  /\ UNCHANGED <<digests, maps, ledgers>>
                  /\ (sle # NullSLE) <=> HasFlag(out, lepOKAY)
                  /\ (~present /\ ~create) =>
                         /\ sle = NullSLE
                         /\ out = lepMISSING
                  /\ (~present /\ create) =>
                         /\ sle = SLE_new(t, k)
                         /\ sle.type = t /\ sle.index = k
                         /\ HasFlag(out, lepCREATED) /\ HasFlag(out, lepOKAY)
                  /\ (present /\ stored.type = t) =>
                         /\ sle = stored
                         /\ HasFlag(out, lepOKAY) /\ ~HasFlag(out, lepCREATED)
                  /\ (present /\ stored.type # t) =>
                         /\ sle = NullSLE
                         /\ HasFlag(out, lepWRONGTYPE) /\ ~HasFlag(out, lepOKAY)
      ]_vars

\* getASNode found an entry of another type than the one asked for
C16_Witness ==
    /\ held.op = "getASNode"
    /\ hasSLE(World, held.led, held.key)
    /\ getSLE(World, held.led, held.key).type # held.let
    /\ held.sle = NullSLE
    /\ HasFlag(held.parms, lepWRONGTYPE)

\* the keys the callers use
AccessKeys == {getAccountRootIndex(a) : a \in Written}

\* entry e, written with result ret, is what the ledger now returns
Observed(i, e, ret) ==
    ret \in {lepCREATED, lepOKAY} =>
        /\ hasSLE(WorldNext, i, e.index)
        /\ getSLE(WorldNext, i, e.index) = e
        /\ getSLEi(WorldNext, sleCache', i, e.index).sle = e

\* this step is a write to key k of ledger i
WriteTo(i, k) ==
    \/ \E p \in ParmsIn, a \in Written, b \in Balances :
          getAccountRootIndex(a) = k /\ WriteBack(i, p, a, b)
    \/ \E p \in ParmsIn : held.sle.index = k /\ WriteBackHeld(i, p)

\* C17: on a mutable ledger, after writeBack(.., e) returns Created or Okay
\* the key e.index is present and getSLE and getSLEi both return an entry
\* equal to e, until the next write to that key; the last write wins; an
\* entry obtained from getSLE and then modified does not change the ledger
\* until writeBack is called.
C17_ReadYourWrites ==
    [][\A i \in Live :
          /\ \A p \in ParmsIn, a \in Written, b \in Balances :
                 WriteBack(i, p, a, b) =>
                     LET e == AccountRootSLE(getAccountRootIndex(a), b, 1)
                     IN  Observed(i, e, writeBack(World, i, p, e).ret)
          /\ \A p \in ParmsIn :
                 WriteBackHeld(i, p) =>
                     Observed(i, held.sle, writeBack(World, i, p, held.sle).ret)
          /\ \A k \in AccessKeys :
                 /\ (hasSLE(World, i, k) /\ ~WriteTo(i, k)) =>
                        /\ hasSLE(WorldNext, i, k)
                        /\ getSLE(WorldNext, i, k) = getSLE(World, i, k)
                 /\ hasSLE(WorldNext, i, k) =>
                        getSLEi(WorldNext, sleCache', i, k).sle
                            = getSLE(WorldNext, i, k)
          /\ (\E b \in HeldBalances : ModifyHeld(b)) =>
                 UNCHANGED <<digests, maps, ledgers>>
      ]_vars

\* the caller holds an entry it read with getSLE and changed, the ledger
\* still returns the entry last written, which getSLEi has in its cache
C17_Witness ==
    /\ held.op = "getSLE"
    /\ held.sle.type = ltACCOUNT_ROOT
    /\ held.sle.Balance \in HeldBalances
    /\ held.key = getAccountRootIndex(2)
    /\ hasSLE(World, held.led, held.key)
    /\ getSLE(World, held.led, held.key).Balance \in Balances
    /\ LeafHash(SLE_add(getSLE(World, held.led, held.key)), held.key)
           \in DOMAIN sleCache

-----------------------------------------------------------------------------
(* Properties of the serialized header *)

\* the header fields of a ledger
Header(L) ==
    [seq |-> L.mLedgerSeq, totalCoins |-> L.mTotCoins,
     parentHash |-> L.mParentHash, txRoot |-> L.mTransHash,
     accountRoot |-> L.mAccountHash, parentCloseTime |-> L.mParentCloseTime,
     closeTime |-> L.mCloseTime, closeResolution |-> L.mCloseResolution,
     closeFlags |-> L.mCloseFlags]

\* the hash of ledger i's header as it stands: prefix and body hashed
HeaderHash(w, i) ==
    Digest(w.digests, <<HashPrefix_ledgerMaster>> \o addRaw(w.ledgers[i]))

\* C18: for every ledger header, addRaw writes exactly 118 bytes in the
\* order seq(4), totalCoins(8), parentHash(32), txRoot(32), accountRoot(32),
\* parentCloseTime(4), closeTime(4), closeResolution(1), closeFlags(1), and
\* setRaw applied to those bytes, or to them preceded by a 4-byte prefix
\* with hasPrefix = true, restores every header field and yields the same
\* ledger hash.
C18_HeaderRoundTrip ==
    [][(/\ Len(ledgers') = Len(ledgers) + 1
        /\ origin'[Len(ledgers')].kind = "blob") =>
          LET i   == origin'[Len(ledgers')].src
              L   == ledgers[i]
              raw == getRaw(L)
              N   == ledgers'[Len(ledgers')]
              at(pos, n) == SubSeq(raw, pos + 1, pos + n)
          IN  /\ \E b \in BOOLEAN : FromBlob(i, b)
              /\ Len(raw) = 118
              /\ at(0, 4) = BigEndian(L.mLedgerSeq, 4)
              /\ at(4, 8) = BigEndian(L.mTotCoins, 8)
              /\ at(12, 32) = BigEndian(L.mParentHash, 32)
              /\ at(44, 32) = BigEndian(L.mTransHash, 32)
              /\ at(76, 32) = BigEndian(L.mAccountHash, 32)
              /\ at(108, 4) = BigEndian(L.mParentCloseTime, 4)
              /\ at(112, 4) = BigEndian(L.mCloseTime, 4)
              /\ at(116, 1) = <<L.mCloseResolution>>
              /\ at(117, 1) = <<L.mCloseFlags>>
              /\ Header(N) = Header(L)
              /\ N.mValidHash
              /\ N.mHash = HeaderHash(World, i)
              /\ L.mImmutable => N.mHash = updateHash(World, i).ledgers[i].mHash
      ]_vars

\* a ledger read back from the prefixed header of an accepted successor
\* whose roots, parent hash and times are all non-zero and distinct
C18_Witness ==
    \E n \in Live :
        /\ origin[n].kind = "blob"
        /\ ledgers[n].mHash = ledgers[origin[n].src].mHash
        /\ Header(ledgers[n]) = Header(ledgers[origin[n].src])
        /\ ledgers[n].mParentHash # 0
        /\ ledgers[n].mAccountHash # 0
        /\ ledgers[n].mTransHash # 0
        /\ ledgers[n].mCloseTime # ledgers[n].mParentCloseTime
        /\ ledgers[n].mCloseFlags = sLCF_NoConsensusTime

-----------------------------------------------------------------------------
(* Properties of the quality indexes *)

C20_QualityOrder ==
    book.ofBook =>
        /\ \A r2 \in Rates :
               KeyLess(book.rate, r2) =>
                   KeyLess(book.index,
                           getQualityIndex(book.base, r2, book.host))
        /\ ~KeyLess(book.index, book.base)
        /\ KeyLess(book.index, book.next)
        /\ SubSeq(book.base, 25, 32) = BigEndian(0, 8)

\* the directory of the highest rate of a book whose base ends a run of
\* 0xFF bytes: the next base carries over 23 bytes
C20_Witness ==
    /\ book.ofBook
    /\ book.rate = [j \in 1..8 |-> 255]
    /\ book.base[24] = 255
    /\ book.next[1] = book.base[1] + 1
    /\ KeyLess(book.index, book.next)

-----------------------------------------------------------------------------
(* Properties of the keys and of the close time *)

\* C21: for every pair of accounts a, b and every currency c,
\* getRippleStateIndex(a, b, c) = getRippleStateIndex(b, a, c): the two
\* accounts are hashed in lexicographic order (the preimage is the space
\* tag, the lesser account, the greater account and the currency, 62 bytes).
C21_RippleStateSymmetric ==
    calc.op = "getRippleStateIndex" =>
        LET a == calc.args[1]
            b == calc.args[2]
            c == calc.args[3]
            lo == IF KeyLess(b, a) THEN b ELSE a
            hi == IF KeyLess(b, a) THEN a ELSE b
        IN  /\ calc.ret = getRippleStateIndex(b, a, c)
            /\ calc.ret = SHA512Half(add16(spaceRipple) \o lo \o hi \o c)
            /\ Len(calc.ret.sha512Half) = 62

\* the key of two different accounts given the greater one first
C21_Witness ==
    /\ calc.op = "getRippleStateIndex"
    /\ KeyLess(calc.args[2], calc.args[1])
    /\ calc.ret = getRippleStateIndex(calc.args[2], calc.args[1],
                                      calc.args[3])
    /\ SubSeq(calc.ret.sha512Half, 3, 22) = calc.args[2]

\* x - y modulo 2^32
U32_minus(x, y) ==
    U32_sub(<<(x[1] + 65536 - y[1]) % 65536, x[2]>>, y[2])

\* |x - y| <= d, for d below 2^16
Within(x, y, d) ==
    LET diff == IF KeyLess(x, y) THEN U32_minus(y, x) ELSE U32_minus(x, y)
    IN  diff[1] = 0 /\ diff[2] <= d

\* C22: for every 32-bit close time t and every resolution r > 0,
\* roundCloseTime(0, r) = 0, roundCloseTime(roundCloseTime(t, r), r) =
\* roundCloseTime(t, r), and |roundCloseTime(t, r) - t| <= r/2.
C22_Rounding ==
    calc.op = "roundCloseTime" =>
        LET t == calc.args[1]
            r == calc.args[2]
        IN  /\ roundCloseTime(U32(0), r) = U32(0)
            /\ roundCloseTime(calc.ret, r) = calc.ret
            /\ Within(calc.ret, t, r \div 2)

-----------------------------------------------------------------------------
(* Properties of the walks over an owner directory *)

\* the indexes of the entries func was called with
Called == [j \in 1..Len(walk.calls) |-> walk.calls[j].index]

\* the entries of the pages of a directory, by page number
RECURSIVE PageEntries(_, _, _, _)
PageEntries(w, i, rootIndex, n) ==
    IF n > MaxPage THEN <<>>
    ELSE (IF hasSLE(w, i, getDirNodeIndex(rootIndex, n))
          THEN getSLE(w, i, getDirNodeIndex(rootIndex, n)).Indexes
          ELSE <<>>)
         \o PageEntries(w, i, rootIndex, n + 1)

\* C23: for every account a whose owner directory results from any sequence
\* of directory add and delete operations, visitAccountItems(a, fn)
\* terminates and calls fn exactly once for each entry of the directory,
\* page by page following IndexNext from ownerDir(a) and in stored order
\* inside each page; the page chain reachable from the root never contains
\* a cycle (from no state does a walk go on for more rounds than the state
\* map has entries).
C23_WalkComplete ==
    /\ \A i \in Live, a \in Owners :
           visitAccountItems(World, <<>>, i, a).done
    /\ walk.op = "visitAccountItems" =>
           /\ walk.done
           /\ Called = owned[walk.account]
           /\ Called = PageEntries(World, 1,
                                   getOwnerDirIndex(walk.account), 0)
           /\ \A j \in 1..Len(walk.calls) :
                  walk.calls[j] = getSLE(World, 1, Called[j])

\* a walk over three pages, the root being empty
C23_Witness ==
    /\ walk.op = "visitAccountItems"
    /\ Len(walk.calls) = 3
    /\ hasSLE(World, 1, getDirNodeIndex(getOwnerDirIndex(walk.account), 2))
    /\ getSLE(World, 1, getOwnerDirIndex(walk.account)).Indexes = <<>>
    /\ walk.done

\* the entries func is called with, of those that follow the cursor, until
\* it has returned true for n of them
RECURSIVE Until(_, _, _, _)
Until(w, entries, fn, n) ==
    IF n = 0 \/ entries = <<>> THEN <<>>
    ELSE <<Head(entries)>>
           \o Until(w, Tail(entries), fn,
                    IF Func(fn, getSLE(w, 1, Head(entries)))
                    THEN n - 1 ELSE n)

Position(seq, x) ==
    IF x \in Range(seq) THEN CHOOSE j \in 1..Len(seq) : seq[j] = x ELSE 0

\* C24: for every owner directory and every entry e in it,
\* visitAccountItems(a, startAfter=e, hint, limit, fn) passes to fn exactly
\* the entries that follow e in the order of the full walk, stopping once fn
\* has returned true for limit entries, whatever the value of hint, and
\* returns true; it returns false and never calls fn when e is non-zero and
\* not in the directory; with startAfter = 0 it walks from the first entry.
C24_WalkFromCursor ==
    walk.op = "visitAccountItems_startAfter" =>
        LET full  == visitAccountItems(World, <<>>, 1, walk.account).calls
            order == [j \in 1..Len(full) |-> full[j].index]
            e     == walk.startAfter
            rest  == SubSeq(order, Position(order, e) + 1, Len(order))
        IN  /\ walk.done
            /\ IF e # 0 /\ e \notin Range(order)
               THEN ~walk.ret /\ walk.calls = <<>>
               ELSE /\ walk.ret
                    /\ Called = Until(World, rest, walk.fn, walk.limit)

-----------------------------------------------------------------------------
(* Properties of the pending saves and of the database *)

Finished == {"saved", "failed"}

\* the saves of sequence n in flight: executions under way, jobs queued and
\* threads about to run or queue one
InFlight(n) ==
    BagCardinality([e \in {x \in BagToSet(saves) :
                               x.seq = n /\ x.status \notin Finished}
                       |-> saves[e]])
    + BagCardinality([j \in {k \in BagToSet(jobQueue) :
                                 ledgers[k.led].mLedgerSeq = n}
                         |-> jobQueue[j]])
    + Cardinality({t \in Threads : /\ threads[t].pc = "registered"
                                   /\ ledgers[threads[t].led].mLedgerSeq = n})

\* C25: at any time at most one save is in flight per ledger sequence (one
\* exactly while the sequence is in PendingSaves): while sequence n is in
\* PendingSaves, a pendSaveValidated call for a ledger of sequence n returns
\* true without running or queueing saveValidatedLedger, and concurrent
\* registrations of the same sequence result in exactly one save.
C25_OneSavePerSequence ==
    [][/\ \A n \in 1..MaxLedgers :
              /\ InFlight(n)' <= 1
              /\ (n \in sPendingSaves') <=> (InFlight(n)' = 1)
       /\ \A t \in Threads, a \in BOOLEAN :
              (/\ threads[t].pc = "flagged"
               /\ ledgers[threads[t].led].mLedgerSeq \in sPendingSaves
               /\ PendSaveRegister(t, a))
              => /\ threads'[t].pc = "idle"
                 /\ threads'[t].ret = TRUE
                 /\ UNCHANGED <<sPendingSaves, jobQueue, saves, db>>
      ]_vars

\* two ledgers of one sequence and of different hashes, both flagged: the
\* save of the first is under way, a call for the second has returned and
\* nothing was run or queued for it
C25_Witness ==
    \E i \in Live, j \in Live :
        /\ ledgers[i].mLedgerSeq = ledgers[j].mLedgerSeq
        /\ ledgers[i].mHash # ledgers[j].mHash
        /\ {ledgers[i].mHash, ledgers[j].mHash} \subseteq hashRouter
        /\ \E e \in BagToSet(saves) :
               e.led = i /\ e.status = "deleted" /\ saves[e] = 1
        /\ \A e \in BagToSet(saves) : e.led # j
        /\ jobQueue = EmptyBag
        /\ \A t \in Threads : threads[t].pc = "idle"

\* C26: every sequence that pendSaveValidated inserts into PendingSaves is
\* eventually removed from it, provided the job queue eventually runs each
\* queued job: saveValidatedLedger erases the sequence on success and when
\* building the accepted-ledger projection fails.
C26_PendingRetired ==
    \A n \in 1..MaxLedgers :
        (n \in sPendingSaves) ~> (n \notin sPendingSaves)

\* a save run by the job queue failed and one run by a caller succeeded;
\* nothing is pending any more
C26_Witness ==
    /\ \E e \in BagToSet(saves) : e.by = 0 /\ e.status = "failed"
    /\ \E e \in BagToSet(saves) : e.by # 0 /\ e.status = "saved"
    /\ sPendingSaves = {}

\* C27: when saveValidatedLedger fails, the failure is recorded, the
\* sequence is removed from PendingSaves and the ledger is not left marked
\* as saved, so that a later pendSaveValidated call for the same ledger
\* performs a new save attempt instead of short-circuiting.
C27_RetryAfterFailure ==
    [][/\ \A e \in BagToSet(saves) :
              SaveFail(e) =>
                  /\ BagIn([e EXCEPT !.status = "failed"], saves')
                  /\ e.seq \notin sPendingSaves'
                  /\ e.hash \notin hashRouter'
       /\ \A t \in Threads, i \in Live :
              (/\ \E e \in BagToSet(saves) :
                      e.hash = getHash(World, i).ret /\ e.status = "failed"
               /\ \A e \in BagToSet(saves) :
                      e.hash = getHash(World, i).ret => e.status = "failed"
               /\ PendSaveCall(t, i))
              => threads'[t].pc = "flagged"
      ]_vars

\* the rows of sequence seq in the three tables
RowsOf(rows, seq) ==
    [Ledgers |-> {r \in rows.Ledgers : r.LedgerSeq = seq},
     Transactions |-> {r \in rows.Transactions : r.LedgerSeq = seq},
     AccountTransactions |->
         {r \in rows.AccountTransactions : r.LedgerSeq = seq}]

\* the rows of sequence e.seq once execution e has made all its changes
RowsSaved(e) ==
    LET txIDs == DOMAIN maps[ledgers[e.led].mTransactionMap].items
    IN  [Ledgers |-> {[LedgerHash |-> e.hash, LedgerSeq |-> e.seq]},
         Transactions |->
             {[TransID |-> id, LedgerSeq |-> e.seq] : id \in txIDs},
         AccountTransactions |->
             {[TransID |-> id, LedgerSeq |-> e.seq] : id \in txIDs}]

\* C28: saveValidatedLedger applies its HeaderIndex changes for a sequence as
\* one transaction: the deletion of the prior header row, the deletion of
\* the tx rows and account-tx rows, the inserted account-tx and tx rows and
\* the inserted header row become visible atomically (a step of a save that
\* changes the rows of the sequence leaves them as they are once all the
\* changes are made).
C28_AtomicIndex ==
    [][\A e \in BagToSet(saves) :
          (SaveStep(e) /\ RowsOf(db', e.seq) # RowsOf(db, e.seq))
              => RowsOf(db', e.seq) = RowsSaved(e)
      ]_vars

\* C29: once a stop has been requested, do_stop discards all queued work,
\* a resolve request processed afterwards is not enqueued, do_work starts
\* no further resolution, and an in-flight resolution that completes with
\* operation_aborted invokes no handler and schedules no more work while it
\* still releases its completion reference.
C29_StopDiscards ==
    [][/\ \A h \in BagToSet(resolver.strand) :
              /\ RunDoStop(h) => resolver'.m_work = <<>>
              /\ (resolver.m_stop_called /\ RunDoResolve(h))
                     => /\ resolver'.m_work = resolver.m_work
                        /\ resolver'.strand = Taken(h).strand
              /\ (resolver.m_stop_called /\ RunDoWork(h))
                     => /\ resolver'.resolving = resolver.resolving
                        /\ resolver'.m_work = resolver.m_work
                        /\ resolver'.strand = Taken(h).strand
       /\ \A q \in BagToSet(resolver.resolving) :
              (q.ec = "aborted" /\ RunDoFinish(q))
                  => /\ resolver'.handled = resolver.handled
                     /\ resolver'.strand = resolver.strand
                     /\ resolver'.m_work = resolver.m_work
                     /\ resolver'.m_pending = resolver.m_pending - 1
      ]_vars

\* the callers whose stop() has returned, where every stop was requested
\* after start() had returned
Stopped == {t \in Callers : /\ resolver.orderly
                            /\ resolver.callers[t].started
                            /\ resolver.callers[t].returned}

\* C30: a stop() called after start() returns only after do_stop has run and
\* every outstanding callback has finished: the stop-complete event is
\* signalled exactly when the last reference drops, the start reference is
\* released no second time, and once stop() has returned the work queue is
\* empty and the stopped flag is set.
C30_StopComplete ==
    /\ Stopped # {} =>
           /\ resolver.stops >= 1
           /\ resolver.m_pending = 0
           /\ resolver.strand = EmptyBag
           /\ resolver.resolving = EmptyBag
           /\ resolver.m_work = <<>>
           /\ resolver.m_stopped = TRUE
    /\ (resolver.started /\ (resolver.m_stop_called => resolver.orderly)) =>
           (resolver.m_stop_complete = TRUE <=> resolver.m_pending = 0)
    /\ resolver.released <= 1

\* the assignments made to the k-th fee field of ledger i
Assigned(i, k) == {j \in 1..Len(fees.log) :
                      fees.log[j].led = i /\ fees.log[j].k = k}

\* the value the k-th fee field takes from a fee settings entry
FromSettings(sle, k) ==
    IF sle # NullSLE /\ (sle.present \div (2 ^ (k - 1))) % 2 = 1
    THEN <<sle.BaseFee, sle.ReferenceFeeUnits, sle.ReserveBase,
           sle.ReserveIncrement>>[k]
    ELSE <<Config.FEE_DEFAULT, Config.TRANSACTION_FEE_BASE,
           Config.FEE_ACCOUNT_RESERVE, Config.FEE_OWNER_RESERVE>>[k]

FeeField(L, k) ==
    <<L.mBaseFee, L.mReferenceFeeUnits, L.mReserveBase,
      L.mReserveIncrement>>[k]

\* each field is assigned at most once
C31_Once == \A i \in Live, k \in 1..4 : Cardinality(Assigned(i, k)) <= 1

\* each assignment takes its value from the entry, or from the default
C31_FromSettings ==
    \A j \in 1..Len(fees.log) :
        LET a == fees.log[j]
        IN  /\ FeeField(ledgers[a.led], a.k) = FromSettings(a.locals.sle, a.k)
            /\ \A n \in 1..Len(fees.log) :
                   fees.log[n].led = a.led =>
                       /\ fees.log[n].call = a.call
                       /\ fees.log[n].locals = a.locals

\* an accessor that has returned has returned what the initialised fields
\* give
C31_Returned ==
    \A t \in Threads :
        LET c == fees.at[t]
        IN  (c.pc = "idle" /\ c.call > 0 /\ fees.lock = 0)
                => /\ \A k \in 1..4 : Assigned(c.led, k) # {}
                   /\ c.ret = accessorValue(ledgers[c.led], c.accessor, c.arg)

\* C31: updateFees is an idempotent, race-free lazy initialisation: under
\* any interleaving of concurrent fee accessors on one ledger the four fee
\* fields are assigned once, each from the fee settings entry when the entry
\* carries the field and from the configured default otherwise, all four by
\* the same call, and an accessor returns what the initialised fields give.
C31_LazyFees == C31_Once /\ C31_FromSettings /\ C31_Returned

\* the keys of the state map of ledger i below hash, and at least begin
Below(i, hash, begin) ==
    {k \in DOMAIN maps[ledgers[i].mAccountStateMap].items :
        KeyValue(k) < KeyValue(hash) /\ KeyValue(k) >= KeyValue(begin)}

Greatest(S) ==
    IF S = {} THEN 0
    ELSE CHOOSE k \in S : \A j \in S : KeyValue(j) <= KeyValue(k)

\* C32: getPrevLedgerIndex(hash, begin) returns the greatest state-map key
\* strictly less than hash provided that key is at least begin, and the zero
\* key otherwise; getPrevLedgerIndex(hash) returns the greatest key strictly
\* less than hash, or the zero key when there is none.
C32_PrevLedgerIndex ==
    /\ calc.op = "getPrevLedgerIndex" =>
           calc.ret = Greatest(Below(calc.args[1], calc.args[2], 0))
    /\ calc.op = "getPrevLedgerIndex_begin" =>
           LET prev == Greatest(Below(calc.args[1], calc.args[2], 0))
           IN  calc.ret = IF KeyValue(prev) >= KeyValue(calc.args[3])
                          THEN prev ELSE 0

-----------------------------------------------------------------------------
(* assertSane called on a ledger whose header may be behind its maps *)

\* ledgers[i].assertSane (); the root hashes it asks the maps for become
\* known; ret holds the one value returned
AssertSane(i) ==
    LET L  == ledgers[i]
        ah == SHAMap_getHash(World, L.mAccountStateMap)
        th == SHAMap_getHash(ah.w, L.mTransactionMap)
    IN  /\ Fits(th.w)
        /\ digests' = th.w.digests
        /\ calc' = [op |-> "assertSane", args |-> <<i>>,
                    ret |-> <<assertSane(World, i)>>]
        /\ UNCHANGED <<maps, ledgers, origin, chain, saveVars, sleCache,
                       held, book, dirVars, resolver, fees>>

NextSane ==
    \/ \E a \in Masters, c \in StartAmounts : Len(ledgers) = 0 /\ Genesis(a, c)
    \/ \E i \in Live, p \in {lepNONE, lepCREATE}, a \in Written, b \in Balances :
          WriteBack(i, p, a, b)
    \/ \E i \in Live, t \in TxIDs, x \in Txns : AddTransaction(i, t, x)
    \/ \E i \in Live : UpdateHash(i)
    \/ \E i \in Live : AssertSane(i)

SpecSane == Init /\ [][NextSane]_vars

\* the root hash a map reports
LiveRoot(m) == SHAMap_getHash(World, m).ret

\* the header's account-state root and transaction root are those of the maps
RootsMatch(i) ==
    /\ ledgers[i].mAccountHash = LiveRoot(ledgers[i].mAccountStateMap)
    /\ ledgers[i].mTransHash = LiveRoot(ledgers[i].mTransactionMap)

\* a call of assertSane has just returned
SaneCalled ==
    /\ calc'.op = "assertSane"
    /\ calc.op = "assertSane" =>
           calc'.args # calc.args \/ calc'.ret # calc.ret

\* C33, as stated: assertSane() returns true exactly when the header's
\* account-state root and transaction root equal the live root hashes of the
\* two maps and the ledger hash, the account-state root and the transaction
\* root are all three non-zero; it never modifies the ledger.
C33_SaneThreeNonZero ==
    [][SaneCalled =>
          LET i == calc'.args[1]
          IN  /\ calc'.ret[1] = (/\ RootsMatch(i)
                                 /\ ledgers[i].mHash # 0
                                 /\ ledgers[i].mAccountHash # 0
                                 /\ ledgers[i].mTransHash # 0)
              /\ ledgers' = ledgers
              /\ maps' = maps]_vars

\* C33, amended: assertSane() returns true exactly when the header's
\* account-state root and transaction root equal the live root hashes of the
\* two maps and the ledger hash and the account-state root are non-zero (the
\* transaction root may be zero: an empty transaction map); it never modifies
\* the ledger.
C33_SaneTwoNonZero ==
    [][SaneCalled =>
          LET i == calc'.args[1]
          IN  /\ calc'.ret[1] = (/\ RootsMatch(i)
                                 /\ ledgers[i].mHash # 0
                                 /\ ledgers[i].mAccountHash # 0)
              /\ ledgers' = ledgers
              /\ maps' = maps]_vars

\* assertSane has returned true on a ledger with no transaction, as on the
\* genesis ledger after updateHash
C33_Witness ==
    /\ calc.op = "assertSane"
    /\ calc.ret = <<TRUE>>
    /\ ledgers[calc.args[1]].mTransHash = 0
    /\ ledgers[calc.args[1]].mHash # 0

-----------------------------------------------------------------------------
(* Successors built from parents in any condition: written to, with
   transactions, closed, accepted with a close time and flags, sealed *)

SuccCloseTimes == {0, 44}
SuccResolutions == {20, 30}

NextSucc ==
    \/ \E a \in Masters, c \in StartAmounts : Len(ledgers) = 0 /\ Genesis(a, c)
    \/ \E i \in Live, a \in Written, b \in Balances :
          WriteBack(i, lepCREATE, a, b)
    \/ \E i \in Live, t \in TxIDs, x \in Txns : AddTransaction(i, t, x)
    \/ \E i \in Live : SetClosed(i)
    \/ \E i \in Live, ct \in SuccCloseTimes, r \in SuccResolutions,
          c \in BOOLEAN : SetAcceptedAt(i, ct, r, c, TRUE)
    \/ \E i \in Live, c \in CoinValues : SetTotalCoins(i, c)
    \/ \E i \in Live : SetImmutable(i)
    \/ \E i \in Live, t \in NetTimes : Successor(i, t)

SpecSucc == Init /\ [][NextSucc]_vars

\* this step constructs a successor
SuccessorBuilt ==
    /\ Len(origin') = Len(origin) + 1
    /\ origin'[Len(origin')].kind = "successor"

\* C34: a successor built from a parent P has sequence P.seq + 1, parentHash
\* = P.getHash(), which is non-zero, parentCloseTime = P.closeTime, totalCoins
\* = P.totalCoins, an empty transaction map, a state map equal to P's, the
\* flags closed, accepted, validated and immutable clear and close flags 0,
\* and closeTime = P.closeTime + its close resolution when P.closeTime is
\* non-zero, otherwise the network close time rounded to its close resolution.
C34_Successor ==
    [][SuccessorBuilt =>
          LET n == Len(ledgers')
              p == origin'[n].src
              S == ledgers'[n]
              P == ledgers[p]
          IN  /\ S.mLedgerSeq = P.mLedgerSeq + 1
              /\ S.mParentHash = getHash(WorldNext, p).ret
              /\ S.mParentHash # 0
              /\ S.mParentCloseTime = P.mCloseTime
              /\ S.mTotCoins = P.mTotCoins
              /\ DOMAIN maps'[S.mTransactionMap].items = {}
              /\ maps'[S.mAccountStateMap].items
                     = maps[P.mAccountStateMap].items
              /\ ~S.mClosed /\ ~S.mAccepted /\ ~S.mValidated /\ ~S.mImmutable
              /\ S.mCloseFlags = 0
              /\ IF P.mCloseTime # 0
                 THEN S.mCloseTime = P.mCloseTime + S.mCloseResolution
                 ELSE \E now \in NetTimes :
                         S.mCloseTime = Rounded(now, S.mCloseResolution)]_vars

\* a successor of a parent with a close time, transactions and a changed
\* state map, whose resolution is not the parent's, and one of a parent
\* without a close time
C34_Witness ==
    /\ Len(ledgers) = 2
    /\ origin[2].kind = "successor"
    /\ ledgers[1].mCloseTime # 0
    /\ ledgers[2].mCloseResolution # ledgers[1].mCloseResolution
    /\ ledgers[2].mCloseTime = ledgers[1].mCloseTime + ledgers[2].mCloseResolution
    /\ ledgers[1].mTransHash # 0
    /\ Cardinality(DOMAIN maps[ledgers[2].mAccountStateMap].items) = 2

-----------------------------------------------------------------------------
(* getLedgerHash asked of the tip of the chain at any time, also between its
   construction and its updateSkipList *)

OpenGetLedgerHash(t) ==
    /\ Len(ledgers) = 1
    /\ \E r \in {getLedgerHash(World, 1, t)} :
        /\ Commit(r.w)
        /\ chain' = [chain EXCEPT !.query = [made |-> TRUE, t |-> t,
                                             ret |-> r.ret,
                                             asserted |-> r.asserted]]
    /\ UNCHANGED <<origin, saveVars, accessVars>>

\* the ledgers built after the first in these runs
MaxOpenLen == 6

NextOpen ==
    \/ \E a \in Masters, c \in StartAmounts : Len(ledgers) = 0 /\ Genesis(a, c)
    \/ \E n \in LoadedSeqs, c \in CloseTimes : ChainLoad(n, c)
    \/ \E t \in NetTimes :
           Len(chain.hashes) < MaxOpenLen /\ ChainSuccessor(t)
    \/ \E a \in BOOLEAN : ChainUpdateSkipList(a)
    \/ /\ Len(ledgers) = 1
       /\ \E t \in Targets(Tip.mLedgerSeq) : OpenGetLedgerHash(t)

SpecOpen == Init /\ [][NextOpen]_vars

\* C35: whenever getLedgerHash reads the sliding skiplist entry of a ledger,
\* that entry's LastLedgerSequence equals the ledger's sequence - 1, and
\* whenever it reads a paged entry that entry's LastLedgerSequence is a
\* multiple of 256 and not below the target: the three assertions of
\* getLedgerHash hold in every reachable state, also on a freshly built
\* successor on which updateSkipList has not yet run.
C35_LookupAssertions == chain.query.made => ~chain.query.asserted

\* C36: whenever the rows of a sequence n are partially written by a save
\* (the prior rows deleted, the new header row not yet inserted), n is in
\* sPendingSaves; a sequence leaves sPendingSaves only after the insert of the
\* header row has completed or after the failure of the save was recorded.
C36_PendingCoversPartial ==
    [][/\ \A e \in BagToSet(saves') :
              e.status \in {"deleted", "written"} => e.seq \in sPendingSaves'
       /\ \A n \in sPendingSaves \ sPendingSaves' :
              \E e \in BagToSet(saves) :
                  /\ e.seq = n
                  /\ \/ e.status = "indexed" /\ SaveErase(e)
                     \/ e.status = "running" /\ SaveFail(e)
      ]_vars

\* a second ledger of a sequence is being saved: the row of the first, which
\* was saved, is deleted, and the sequence is pending
C36_Witness ==
    \E e1 \in BagToSet(saves), e2 \in BagToSet(saves) :
        /\ e1.seq = e2.seq
        /\ e1.status = "saved"
        /\ e2.status = "deleted"
        /\ e1.hash # e2.hash
        /\ e2.seq \in sPendingSaves

\* the resolutions started and not yet completed
Outstanding ==
    {q \in BagToSet(resolver.resolving) : q.ec = "pending"}

\* C38: at most one asynchronous resolution is in flight at any time: names
\* are resolved strictly one after another, also when resolve() is called
\* while a resolution is outstanding.
C38_OneOutstanding ==
    /\ Cardinality(Outstanding) <= 1
    /\ \A q \in Outstanding : CopiesIn(q, resolver.resolving) = 1

-----------------------------------------------------------------------------
(* The resolver used by one thread in the order start(), resolve() any number
   of times, stop(); an assertion that fails is recorded and the run goes on
   as a build without assertions does *)

OrderlyCaller == CHOOSE t \in Callers : \A u \in Callers : t <= u

\* the assertions among checks, a set of <<text, holds>>, that fail
Failed(checks) == {c[1] : c \in {k \in checks : ~k[2]}}

\* start () up to the exchange of m_stopped, with its two assertions
AssertingStart(t) ==
    /\ At(t, "idle")
    /\ ~resolver.started
    /\ resolver.m_stop_called = FALSE
    /\ LET failed == Failed({<<"start: m_stopped == true",
                               resolver.m_stopped = TRUE>>,
                             <<"start: m_stop_called == false",
                               resolver.m_stop_called = FALSE>>})
           r == [resolver EXCEPT !.asserted = @ \cup failed]
       IN  IF resolver.m_stopped = TRUE
           THEN Becomes([r EXCEPT !.m_stopped = FALSE,
                                  !.callers[t].pc = "reset"])
           ELSE Becomes([r EXCEPT !.started = TRUE])

\* resolve () after start () has returned and before stop (), with its
\* assertions on the two flags
AssertingResolve(t, names, handler) ==
    /\ At(t, "idle")
    /\ resolver.started
    /\ resolver.m_stop_called = FALSE
    /\ names # <<>>
    /\ resolver.resolves < MaxResolves
    /\ LET failed == Failed({<<"resolve: m_stop_called == false",
                               resolver.m_stop_called = FALSE>>,
                             <<"resolve: m_stopped == true",
                               resolver.m_stopped = TRUE>>})
       IN  Becomes(post([resolver EXCEPT !.resolves = @ + 1,
                                         !.asserted = @ \cup failed],
                        Bound("do_resolve", names, handler)))

\* stop () after start () has returned
OrderlyStop(t) == resolver.started /\ Stop(t)

\* do_stop runs, with its assertion
AssertingRunDoStop(h) ==
    /\ BagIn(h, resolver.strand)
    /\ h.fn = "do_stop"
    /\ LET failed == Failed({<<"do_stop: m_stop_called == true",
                               resolver.m_stop_called = TRUE>>})
       IN  Becomes(removeReference(
               do_stop([Taken(h) EXCEPT !.asserted = @ \cup failed])))

NextOrderly ==
    \/ AssertingStart(OrderlyCaller)
    \/ StartReset(OrderlyCaller)
    \/ StartAddReference(OrderlyCaller)
    \/ \E names \in NameLists, handler \in HandlerTypes :
           AssertingResolve(OrderlyCaller, names, handler)
    \/ OrderlyStop(OrderlyCaller)
    \/ StopWait(OrderlyCaller)
    \/ \E h \in BagToSet(resolver.strand) : AssertingRunDoStop(h)
    \/ \E h \in BagToSet(resolver.strand) : RunDoResolve(h)
    \/ \E h \in BagToSet(resolver.strand) : RunDoWork(h)
    \/ \E q \in BagToSet(resolver.resolving), ec \in Codes : Complete(q, ec)
    \/ \E q \in BagToSet(resolver.resolving) : RunDoFinish(q)

SpecOrderly == Init /\ [][NextOrderly]_vars

\* C39: in every run of the form start(), then any number of resolve()
\* calls, then stop(), every precondition assertion of the resolver holds:
\* start() sees m_stopped = true and m_stop_called = false, each resolve()
\* made after start() and before the stop satisfies its assertions on
\* m_stop_called and m_stopped, and do_stop sees m_stop_called = true.
C39_Preconditions == resolver.asserted = {}

-----------------------------------------------------------------------------
(* The resolver serving requests while no stop is requested: each request
   carries its own handler *)

ServeHandlers == <<"h1", "h2", "h3", "h4">>

\* the handler of the next request
ServeHandler == ServeHandlers[resolver.resolves + 1]

\* resolve () on a resolver that was not started
ServeResolve(t, names) ==
    /\ resolver.resolves < Len(ServeHandlers)
    /\ Resolve(t, names, ServeHandler)

\* resolve () after start () has returned
ServeResolveStarted(t, names) ==
    /\ resolver.resolves < Len(ServeHandlers)
    /\ AssertingResolve(t, names, ServeHandler)

NextServe ==
    \/ \E t \in Callers : Start(t)
    \/ \E t \in Callers : StartReset(t)
    \/ \E t \in Callers : StartAddReference(t)
    \/ \E t \in Callers, names \in NameLists : ServeResolve(t, names)
    \/ \E t \in Callers, names \in NameLists : ServeResolveStarted(t, names)
    \/ \E h \in BagToSet(resolver.strand) : RunDoResolve(h)
    \/ \E h \in BagToSet(resolver.strand) : RunDoWork(h)
    \/ \E q \in BagToSet(resolver.resolving), ec \in Codes : Complete(q, ec)
    \/ \E q \in BagToSet(resolver.resolving) : RunDoFinish(q)

SpecServe == Init /\ [][NextServe]_vars

\* a step of an io_service thread while no stop is requested
ServeRun ==
    \/ \E h \in BagToSet(resolver.strand) : RunDoResolve(h) \/ RunDoWork(h)
    \/ \E q \in BagToSet(resolver.resolving) : RunDoFinish(q)

\* the io_service runs every handler it holds, and every resolution in flight
\* completes
SpecServeLive ==
    /\ SpecServe
    /\ WF_vars(ServeRun)
    /\ WF_vars(\E q \in BagToSet(resolver.resolving), ec \in Codes :
                  Complete(q, ec))

IsQueued(e) == e.ev = "queued"

IsTaken(e) == e.ev \in {"started", "skipped"}

\* the request and the name of an entry of the log
Key(e) == <<e.handler, e.name>>

\* the log has an entry of one of the kinds evs for name of the request with
\* handler
Logged(evs, handler, name) ==
    \E j \in 1..Len(resolver.log) :
        /\ resolver.log[j].ev \in evs
        /\ Key(resolver.log[j]) = <<handler, name>>

\* the names are taken from the queue in the order they were queued, each
\* once; a name is skipped exactly when its host part is empty
TakenInOrder ==
    LET Q == SelectSeq(resolver.log, IsQueued)
        T == SelectSeq(resolver.log, IsTaken)
    IN  /\ Len(T) <= Len(Q)
        /\ \A j \in 1..Len(T) :
               /\ Key(T[j]) = Key(Q[j])
               /\ T[j].ev = "skipped" <=> parseName(T[j].name)[1] = <<>>

\* a handler is called once for a name, after the name was started, and with
\* no address when the resolution reported an error
HandledOnce ==
    \A j \in 1..Len(resolver.log) :
        LET e == resolver.log[j]
        IN  e.ev = "handled" =>
                /\ \E k \in 1..(j - 1) :
                       /\ resolver.log[k].ev = "started"
                       /\ Key(resolver.log[k]) = Key(e)
                /\ \A k \in 1..Len(resolver.log) :
                       (resolver.log[k].ev = "handled"
                            /\ Key(resolver.log[k]) = Key(e)) => k = j
                /\ e.ec = "error" => e.addresses = <<>>
                /\ e.ec = "ok" => e.addresses # <<>>

\* every request submitted was queued, every name queued was taken from the
\* queue, and the handler was called for every name whose host part is not
\* empty
AllServed ==
    /\ \A h \in BagToSet(resolver.strand) : h.fn # "do_resolve"
    /\ \A j \in 1..resolver.resolves :
           \E name \in HostNames : Logged({"queued"}, ServeHandlers[j], name)
    /\ \A j \in 1..Len(resolver.log) :
           LET e == resolver.log[j]
           IN  e.ev = "queued" =>
                   /\ Logged({"started", "skipped"}, e.handler, e.name)
                   /\ parseName(e.name)[1] # <<>> =>
                          Logged({"handled"}, e.handler, e.name)

\* C37: if stop is never requested, every name submitted through resolve()
\* is taken from the work queue exactly once and, when its host part parses
\* non-empty, its handler is eventually invoked exactly once with that name,
\* with an empty address list when the resolution reported an error; the
\* names of one request are started in the order given and the requests in
\* FIFO order; a name that cannot be parsed is skipped without a handler call
\* and does not stall the names queued behind it.
C37_Served ==
    /\ [](TakenInOrder /\ HandledOnce)
    /\ []<>AllServed

\* two requests were served: a name of the first was skipped and the name
\* behind it resolved with an error, the name of the second resolved
C37_Witness ==
    /\ Logged({"skipped"}, "h1", <<" ">>)
    /\ \E j \in 1..Len(resolver.log) :
           /\ resolver.log[j].ev = "handled"
           /\ resolver.log[j].handler = "h1"
           /\ resolver.log[j].ec = "error"
    /\ \E j \in 1..Len(resolver.log) :
           /\ resolver.log[j].ev = "handled"
           /\ resolver.log[j].handler = "h2"
           /\ resolver.log[j].ec = "ok"
    /\ resolver.m_work = <<>>
    /\ resolver.strand = EmptyBag

-----------------------------------------------------------------------------
(* CreateOffer::doApply on a view of the ledger; what the layers below it
   answer (funds, freezes, the crossing, the directories) comes with the
   call *)

Amount(currency, issuer, value) ==
    [currency |-> currency, issuer |-> issuer, value |-> value]

isNative(a) == a.currency = "XRP"

\* the largest native amount, scaled down
cMaxNative == 1000

isLegalNet(a) == ~isNative(a) \/ a.value <= cMaxNative

\* the rate of an offer, in: out, here in hundredths; 0 when nothing goes out
getRate(offerOut, offerIn) ==
    IF offerOut.value <= 0 \/ offerIn.value < 0 THEN BigEndian(0, 8)
    ELSE BigEndian((offerIn.value * 100) \div offerOut.value, 8)

\* the book of two issues, as an index of BookHashes
BookOf(pays, gets) ==
    IF pays.currency = "USD" THEN 1 ELSE IF gets.currency = "USD" THEN 2 ELSE 3

\* the directory of the book of pays and gets at rate uRate
BookDirectory(pays, gets, uRate) ==
    getQualityIndex(getBookBase(BookOf(pays, gets), "little"), uRate, "little")

bumpSeq(view) == [view EXCEPT !.seq = @ + 1]

\* offerDelete: the offer leaves both directories and the state, and its
\* owner owns one entry less
offerDelete(view, index, ter) ==
    IF ter # "tesSUCCESS" THEN view
    ELSE [view EXCEPT !.offers = {o \in @ : o.index # index},
                      !.ownerDir = @ \ {index},
                      !.books = {b \in @ : b[2] # index},
                      !.ownerCount = @ - 1]

\* crossOffers: what was taken is moved between the accounts
crossOffers(view, taker_amount, cross) ==
    [ter   |-> cross.ter,
     place |-> [in  |-> [taker_amount.in EXCEPT !.value = cross.in],
                out |-> [taker_amount.out EXCEPT !.value = cross.out]],
     view  |-> [view EXCEPT !.flow = <<taker_amount.in.value - cross.in,
                                       taker_amount.out.value - cross.out>>]]

\* the checks on the transaction, the freezes and the funds: the first that
\* fails gives the result
preflight(tx, env, view) ==
    IF tx.invalidFlags THEN "temINVALID_FLAG"
    ELSE IF tx.ImmediateOrCancel /\ tx.FillOrKill THEN "temINVALID_FLAG"
    ELSE IF tx.Expiration.present /\ tx.Expiration.value = 0
    THEN "temBAD_EXPIRATION"
    ELSE IF isNative(tx.TakerPays) /\ isNative(tx.TakerGets)
    THEN "temBAD_OFFER"
    ELSE IF tx.TakerPays.value <= 0 \/ tx.TakerGets.value <= 0
    THEN "temBAD_OFFER"
    ELSE IF /\ tx.TakerPays.currency = tx.TakerGets.currency
            /\ tx.TakerPays.issuer = tx.TakerGets.issuer
    THEN "temREDUNDANT"
    ELSE IF "BAD" \in {tx.TakerPays.currency, tx.TakerGets.currency}
    THEN "temBAD_CURRENCY"
    ELSE IF \/ isNative(tx.TakerPays) # (tx.TakerPays.issuer = "none")
            \/ isNative(tx.TakerGets) # (tx.TakerGets.issuer = "none")
    THEN "temBAD_ISSUER"
    ELSE IF \/ tx.TakerPays.issuer \in env.frozen
            \/ tx.TakerGets.issuer \in env.frozen
    THEN "tecFROZEN"
    ELSE IF env.funds <= 0 THEN "tecUNFUNDED_OFFER"
    ELSE IF /\ tx.OfferSequence.present
            /\ \/ tx.OfferSequence.value = 0
               \/ view.sequenceNext - 1 <= tx.OfferSequence.value
    THEN "temBAD_SEQUENCE"
    ELSE "tesSUCCESS"

\* the new entry of the offer
NewOffer(tx, uLedgerIndex, uDirectory, saTakerPays, saTakerGets) ==
    [index |-> uLedgerIndex, Account |-> tx.Account,
     Sequence |-> tx.Sequence, BookDirectory |-> uDirectory,
     TakerPays |-> saTakerPays, TakerGets |-> saTakerGets,
     Expiration |-> tx.Expiration.value,
     Passive |-> tx.Passive, Sell |-> tx.Sell]

\* the placement that files the offer at the rate of what is left of it
placeOffer_CurrentRate(tx, env, view, saTakerPays, saTakerGets, uRate) ==
    LET uLedgerIndex == getOfferIndex(tx.Account, tx.Sequence)
        owned1 == [view EXCEPT !.ownerDir = @ \cup {uLedgerIndex},
                               !.ownerCount = @ + 1]
        uDirectory == BookDirectory(tx.TakerPays, tx.TakerGets,
                                    getRate(saTakerGets, saTakerPays))
        booked == [owned1 EXCEPT !.books = @ \cup {<<uDirectory, uLedgerIndex>>}]
    IN  IF env.ownerDirAdd # "tesSUCCESS"
        THEN [ter |-> env.ownerDirAdd, view |-> view]
        ELSE IF env.bookDirAdd # "tesSUCCESS"
        THEN [ter |-> env.bookDirAdd, view |-> owned1]
        ELSE [ter  |-> "tesSUCCESS",
              view |-> [booked EXCEPT !.offers = @ \cup
                           {NewOffer(tx, uLedgerIndex, uDirectory,
                                     saTakerPays, saTakerGets)}]]

\* the remainder of the offer is placed: the owner directory, the owner
\* count, the book directory at the original rate, the entry
placeOffer(tx, env, view, saTakerPays, saTakerGets, uRate) ==
    LET uLedgerIndex == getOfferIndex(tx.Account, tx.Sequence)
        owned1 == [view EXCEPT !.ownerDir = @ \cup {uLedgerIndex},
                               !.ownerCount = @ + 1]
        uDirectory == BookDirectory(tx.TakerPays, tx.TakerGets, uRate)
        booked == [owned1 EXCEPT !.books = @ \cup {<<uDirectory, uLedgerIndex>>}]
    IN  IF env.ownerDirAdd # "tesSUCCESS"
        THEN [ter |-> env.ownerDirAdd, view |-> view]
        ELSE IF env.bookDirAdd # "tesSUCCESS"
        THEN [ter |-> env.bookDirAdd, view |-> owned1]
        ELSE [ter  |-> "tesSUCCESS",
              view |-> [booked EXCEPT !.offers = @ \cup
                           {NewOffer(tx, uLedgerIndex, uDirectory,
                                     saTakerPays, saTakerGets)}]]

\* the ledger whose reserve the transaction is held to
FeeLedger == [mReserveBase |-> Config.FEE_ACCOUNT_RESERVE,
              mReserveIncrement |-> Config.FEE_OWNER_RESERVE]

\* doApply from the crossing on: view is the view after the cancellation
afterCancel(tx, env, view, view_checkpoint, ter0, uRate) ==
    LET ter1  == IF ter0 = "tesSUCCESS" /\ ~isNative(tx.TakerPays)
                 THEN env.acceptAsset ELSE ter0
        taker_amount == [in |-> tx.TakerGets, out |-> tx.TakerPays]
        x     == crossOffers(view, taker_amount, env.cross)
        ter2  == IF ter1 # "tesSUCCESS" THEN ter1
                 ELSE IF x.ter = "tecFAILED_PROCESSING" /\ env.bOpenLedger
                 THEN "telFAILED_PROCESSING" ELSE x.ter
        view2 == IF ter1 = "tesSUCCESS" THEN x.view ELSE view
        crossed == ter2 = "tesSUCCESS" /\ taker_amount # x.place
        saTakerPays == IF ter2 = "tesSUCCESS" THEN x.place.out ELSE tx.TakerPays
        saTakerGets == IF ter2 = "tesSUCCESS" THEN x.place.in ELSE tx.TakerGets
        accountReserve ==
            accessorValue(FeeLedger, "getReserve", view2.ownerCount + 1)
    IN  IF ter2 # "tesSUCCESS" THEN [ter |-> ter2, view |-> view2]
        ELSE IF saTakerPays.value < 0 \/ saTakerGets.value < 0
        THEN [ter |-> "tefINTERNAL", view |-> view2]
        ELSE IF tx.FillOrKill /\ (saTakerPays.value # 0 \/ saTakerGets.value # 0)
        THEN [ter |-> "tesSUCCESS", view |-> view_checkpoint]
        ELSE IF \/ saTakerPays.value = 0
                \/ saTakerGets.value = 0
                \/ tx.ImmediateOrCancel
        THEN [ter |-> "tesSUCCESS", view |-> view2]
        ELSE IF env.mPriorBalance < accountReserve
        THEN [ter  |-> IF env.bOpenLedger \/ ~crossed
                       THEN "tecINSUF_RESERVE_OFFER" ELSE "tesSUCCESS",
              view |-> view2]
        ELSE placeOffer(tx, env, view2, saTakerPays, saTakerGets, uRate)

\* CreateOffer::doApply on the view with the fees paid
doApply(tx, env, view_checkpoint) ==
    LET uRate == getRate(tx.TakerGets, tx.TakerPays)
        view  == bumpSeq(view_checkpoint)
        ter   == preflight(tx, env, view)
        uCancelIndex == getOfferIndex(tx.Account, tx.OfferSequence.value)
        found == /\ tx.OfferSequence.present
                 /\ \E o \in view.offers : o.index = uCancelIndex
        ter0  == IF found THEN env.offerDelete ELSE "tesSUCCESS"
        view1 == IF found THEN offerDelete(view, uCancelIndex, env.offerDelete)
                 ELSE view
    IN  IF ~isLegalNet(tx.TakerPays) \/ ~isLegalNet(tx.TakerGets)
        THEN [ter |-> "temBAD_AMOUNT", view |-> view_checkpoint]
        ELSE IF ter # "tesSUCCESS" THEN [ter |-> ter, view |-> view]
        ELSE IF /\ tx.Expiration.present
                /\ env.parentCloseTime >= tx.Expiration.value
        THEN [ter |-> "tesSUCCESS", view |-> view1]
        ELSE afterCancel(tx, env, view1, view_checkpoint, ter0, uRate)

\* an offer of account 2, sequence 5: 20 USD of gw wanted for 40 XRP
BaseTx ==
    [Account |-> 2, Sequence |-> 5, invalidFlags |-> FALSE,
     Passive |-> FALSE, Sell |-> FALSE,
     ImmediateOrCancel |-> FALSE, FillOrKill |-> FALSE,
     TakerPays |-> Amount("USD", "gw", 20),
     TakerGets |-> Amount("XRP", "none", 40),
     Expiration |-> [present |-> FALSE, value |-> 0],
     OfferSequence |-> [present |-> FALSE, value |-> 0]]

Expirations == {[present |-> FALSE, value |-> 0], [present |-> TRUE, value |-> 0],
                [present |-> TRUE, value |-> 50],
                [present |-> TRUE, value |-> 200]}

OfferSequences40 == {[present |-> FALSE, value |-> 0]}
                        \cup {[present |-> TRUE, value |-> v] : v \in {0, 3, 4, 5}}

Txs ==
    {[BaseTx EXCEPT !.ImmediateOrCancel = i, !.FillOrKill = f,
                    !.Expiration = e, !.OfferSequence = c] :
        i \in BOOLEAN, f \in BOOLEAN, e \in Expirations,
        c \in OfferSequences40}
    \cup {[BaseTx EXCEPT !.invalidFlags = TRUE],
          [BaseTx EXCEPT !.Passive = TRUE, !.Sell = TRUE],
          [BaseTx EXCEPT !.TakerPays = Amount("XRP", "none", 20)],
          [BaseTx EXCEPT !.TakerPays = Amount("USD", "gw", 0)],
          [BaseTx EXCEPT !.TakerGets = Amount("XRP", "none", 0 - 1)],
          [BaseTx EXCEPT !.TakerGets = Amount("USD", "gw", 40)],
          [BaseTx EXCEPT !.TakerPays = Amount("BAD", "gw", 20)],
          [BaseTx EXCEPT !.TakerPays = Amount("USD", "none", 20)],
          [BaseTx EXCEPT !.TakerGets = Amount("XRP", "none", 2000)]}

\* what the crossing leaves of TakerGets (in) and of TakerPays (out)
Crossings ==
    {[ter |-> "tesSUCCESS", in |-> p[1], out |-> p[2]] :
        p \in {<<40, 20>>, <<0, 0>>, <<20, 15>>, <<5, 0>>, <<0, 5>>,
               <<0 - 1, 5>>}}
    \cup {[ter |-> "tecFAILED_PROCESSING", in |-> 40, out |-> 20]}

\* a ledger where nothing goes wrong and nothing is crossed
BaseEnv ==
    [frozen |-> {}, funds |-> 40, offerDelete |-> "tesSUCCESS",
     parentCloseTime |-> 100, acceptAsset |-> "tesSUCCESS",
     cross |-> [ter |-> "tesSUCCESS", in |-> 40, out |-> 20],
     mPriorBalance |-> 300, bOpenLedger |-> TRUE,
     ownerDirAdd |-> "tesSUCCESS", bookDirAdd |-> "tesSUCCESS"]

\* the ledgers that differ in what the checks read, and those that differ
\* in the crossing, the reserve and the directories
Envs ==
    {[BaseEnv EXCEPT !.frozen = z, !.funds = f, !.acceptAsset = a,
                     !.bOpenLedger = o] :
        z \in {{}, {"gw"}}, f \in {0, 40},
        a \in {"tesSUCCESS", "tecNO_LINE"}, o \in BOOLEAN}
    \cup {[BaseEnv EXCEPT !.offerDelete = d, !.cross = c,
                          !.mPriorBalance = b, !.bOpenLedger = o,
                          !.ownerDirAdd = od, !.bookDirAdd = bd] :
             d \in {"tesSUCCESS", "tefBAD_LEDGER"}, c \in Crossings,
             b \in {260, 300}, o \in BOOLEAN,
             od \in {"tesSUCCESS", "tecDIR_FULL"},
             bd \in {"tesSUCCESS", "tecDIR_FULL"}}

\* the offer the account has placed before, of sequence 3
OldOffer ==
    LET tx  == [BaseTx EXCEPT !.Sequence = 3]
        dir == BookDirectory(tx.TakerPays, tx.TakerGets,
                             getRate(tx.TakerGets, tx.TakerPays))
    IN  NewOffer(tx, getOfferIndex(tx.Account, tx.Sequence), dir,
                 tx.TakerPays, tx.TakerGets)

\* the view with the fees paid: the account, its next sequence 6, owns the
\* old offer
OfferView ==
    [seq |-> 0, sequenceNext |-> 6, ownerCount |-> 1,
     ownerDir |-> {OldOffer.index},
     books |-> {<<OldOffer.BookDirectory, OldOffer.index>>},
     offers |-> {OldOffer},
     flow |-> <<0, 0>>]

\* a transactor is made for one transaction and applied once to the view
\* with the fees paid; ret holds the one result
DoApply ==
    /\ calc.op = "none"
    /\ \E tx \in Txs, env \in Envs :
           calc' = [op |-> "doApply", args |-> <<tx, env>>,
                    ret |-> <<doApply(tx, env, OfferView)>>]
    /\ UNCHANGED <<digests, maps, ledgers, origin, chain, saveVars,
                   sleCache, held, book, dirVars, resolver, fees>>

NextOffer == DoApply

SpecOffer == Init /\ [][NextOffer]_vars

\* the transaction is well formed, nothing is frozen and the offer is funded
ChecksPassed(tx, env) ==
    /\ isLegalNet(tx.TakerPays) /\ isLegalNet(tx.TakerGets)
    /\ ~tx.invalidFlags
    /\ ~(tx.ImmediateOrCancel /\ tx.FillOrKill)
    /\ tx.Expiration.present => tx.Expiration.value # 0
    /\ ~(isNative(tx.TakerPays) /\ isNative(tx.TakerGets))
    /\ tx.TakerPays.value > 0 /\ tx.TakerGets.value > 0
    /\ <<tx.TakerPays.currency, tx.TakerPays.issuer>>
           # <<tx.TakerGets.currency, tx.TakerGets.issuer>>
    /\ tx.TakerPays.currency # "BAD" /\ tx.TakerGets.currency # "BAD"
    /\ isNative(tx.TakerPays) <=> tx.TakerPays.issuer = "none"
    /\ isNative(tx.TakerGets) <=> tx.TakerGets.issuer = "none"
    /\ env.frozen \cap {tx.TakerPays.issuer, tx.TakerGets.issuer} = {}
    /\ env.funds > 0
    /\ tx.OfferSequence.present =>
           /\ tx.OfferSequence.value # 0
           /\ tx.OfferSequence.value < OfferView.sequenceNext - 1

Expired(tx, env) ==
    tx.Expiration.present /\ env.parentCloseTime >= tx.Expiration.value

\* the old offer is gone from the view
Cancelled(view) == \A o \in view.offers : o.index # OldOffer.index

\* the entries the account owned when the remainder was to be placed
OwnedBefore(view) == OfferView.ownerCount - (IF Cancelled(view) THEN 1 ELSE 0)

\* C40: doApply creates an offer entry, links it into the owner directory
\* and into the book directory at getQualityIndex(bookBase, original rate) and
\* increments the owner count by exactly one only when all malformed, frozen
\* and unfunded checks passed, the offer has not expired, the crossing
\* succeeded and left both remaining amounts strictly positive,
\* ImmediateOrCancel is not set and the prior balance covers the reserve for
\* ownerCount + 1; when FillOrKill is set and a remainder is left, the view
\* is restored to the fees-only checkpoint, no offer is placed and tesSUCCESS
\* is returned.
C40_Placement ==
    calc.op = "doApply" =>
        LET tx  == calc.args[1]
            env == calc.args[2]
            r   == calc.ret[1]
            uLedgerIndex == getOfferIndex(tx.Account, tx.Sequence)
            placed  == \E o \in r.view.offers : o.index = uLedgerIndex
            inOwner == uLedgerIndex \in r.view.ownerDir
            inBook  == \E b \in r.view.books : b[2] = uLedgerIndex
            counted == r.view.ownerCount > OwnedBefore(r.view)
            crossing ==
                /\ ChecksPassed(tx, env)
                /\ ~Expired(tx, env)
                /\ env.cross.ter = "tesSUCCESS"
        IN  /\ (placed \/ inOwner \/ inBook \/ counted) =>
                   /\ crossing
                   /\ env.cross.in > 0 /\ env.cross.out > 0
                   /\ ~tx.ImmediateOrCancel
                   /\ env.mPriorBalance >=
                          Config.FEE_ACCOUNT_RESERVE
                              + (OwnedBefore(r.view) + 1)
                                    * Config.FEE_OWNER_RESERVE
            /\ placed =>
                   /\ inOwner
                   /\ <<BookDirectory(tx.TakerPays, tx.TakerGets,
                            getRate(tx.TakerGets, tx.TakerPays)),
                        uLedgerIndex>> \in r.view.books
                   /\ \A b \in r.view.books :
                          b[2] = uLedgerIndex =>
                              \E o \in r.view.offers :
                                  /\ o.index = uLedgerIndex
                                  /\ o.BookDirectory = b[1]
                   /\ r.view.ownerCount = OwnedBefore(r.view) + 1
                   /\ r.ter = "tesSUCCESS"
            /\ (/\ crossing
                /\ isNative(tx.TakerPays) \/ env.acceptAsset = "tesSUCCESS"
                /\ (tx.OfferSequence.present /\ tx.OfferSequence.value = 3)
                       => env.offerDelete = "tesSUCCESS"
                /\ env.cross.in >= 0 /\ env.cross.out >= 0
                /\ env.cross.in # 0 \/ env.cross.out # 0
                /\ tx.FillOrKill) =>
                   /\ r.view = OfferView
                   /\ ~placed
                   /\ r.ter = "tesSUCCESS"

\* an offer that cancels the old offer and is crossed in part was placed
\* with what was left of it
C40_Witness ==
    /\ calc.op = "doApply"
    /\ calc.args[2].cross.in = 20
    /\ calc.args[2].cross.out = 15
    /\ Cancelled(calc.ret[1].view)
    /\ \E o \in calc.ret[1].view.offers :
           /\ o.index = getOfferIndex(5 - 3, 5)
           /\ o.TakerPays.value = 15
           /\ o.TakerGets.value = 20
    /\ calc.ret[1].view.ownerCount = 1

=============================================================================
